---- MODULE Spec2Model ----
(***************************************************************************)
(* A model of libgit2's diff engine (src/diff.c): the three enumerators    *)
(* that fill a delta list (tree/tree, tree/index, index/workdir) and the   *)
(* driver that iterates a list through the file, hunk and line callbacks.  *)
(*                                                                         *)
(* Paths and text are sequences of one-character strings, compared byte by *)
(* byte through Ord.  Object ids are naturals, Zero being the all-zero id. *)
(***************************************************************************)
EXTENDS Integers, Sequences, FiniteSets, TLC

\* ------------------------------------------------------------------ bounds

\* Number of distinct non-zero object ids (blob hashes) in the inputs.
MaxHash == 2
\* Longest list git_diff_foreach is given.
MaxFiles == 2
\* Tuples the backend emits during one git_diff_foreach call.
MaxEmits == 2
\* Largest line number or count in a hunk header.
MaxLineNo == 305

\* -------------------------------------------------------------- vocabulary

GIT_SUCCESS  == "GIT_SUCCESS"
GIT_ENOMEM   == "GIT_ENOMEM"
GIT_ENOTFOUND == "GIT_ENOTFOUND"
GIT_EOSERR   == "GIT_EOSERR"

GIT_STATUS_ADDED     == "added"
GIT_STATUS_DELETED   == "deleted"
GIT_STATUS_MODIFIED  == "modified"
GIT_STATUS_IGNORED   == "ignored"
GIT_STATUS_UNTRACKED == "untracked"

\* The all-zero object id (what calloc/memset leave, and what a NULL oid
\* argument leaves untouched).
Zero == 0
Hashes == 1..MaxHash

\* A NULL path argument / NULL pointer stand-in (never a real path).
NULL == <<"NULL">>

\* File modes (octal in the source, decimal here).
S_IFDIR     == 16384      \* 0040000
S_IFREG     == 32768      \* 0100000
S_IFLNK     == 40960      \* 0120000
S_IFGITLINK == 57344      \* 0160000
MODE_PERMS_MASK == 511    \* 0777
FILE_MODE   == 33188      \* 0100644
EXEC_MODE   == 33261      \* 0100755

\* (MODE & S_IFMT): the file-type bits of a 16-bit mode.
TypeBits(mode) == (mode \div 4096) * 4096
S_ISDIR(mode) == TypeBits(mode) = S_IFDIR
S_ISREG(mode) == TypeBits(mode) = S_IFREG
S_ISLNK(mode) == TypeBits(mode) = S_IFLNK
S_ISGITLINK(mode) == TypeBits(mode) = S_IFGITLINK

\* CANONICAL_PERMS(MODE): (MODE & 0100) ? 0755 : 0644
CANONICAL_PERMS(mode) == IF (mode \div 64) % 2 = 1 THEN 493 ELSE 420

\* MODE_TYPE(MODE): MODE & ~MODE_PERMS_MASK
MODE_TYPE(mode) == mode - (mode % (MODE_PERMS_MASK + 1))

canonical_mode(raw_mode) ==
    IF S_ISREG(raw_mode) THEN S_IFREG + CANONICAL_PERMS(raw_mode)
    ELSE IF S_ISLNK(raw_mode) THEN S_IFLNK
    ELSE IF S_ISDIR(raw_mode) THEN S_IFDIR
    ELSE IF S_ISGITLINK(raw_mode) THEN S_IFGITLINK
    ELSE 0

\* ------------------------------------------------------------------- paths

Chars == {".", "/", "a", "b"}

\* Byte values of the characters paths are built from.
Ord(c) == CASE c = "." -> 46 [] c = "/" -> 47 [] c = "a" -> 97 [] c = "b" -> 98

RECURSIVE strcmp(_, _)
strcmp(s, t) ==
    IF s = <<>> /\ t = <<>> THEN 0
    ELSE IF s = <<>> THEN -1
    ELSE IF t = <<>> THEN 1
    ELSE IF Ord(Head(s)) < Ord(Head(t)) THEN -1
    ELSE IF Ord(Head(s)) > Ord(Head(t)) THEN 1
    ELSE strcmp(Tail(s), Tail(t))

\* git__prefixcmp(str, prefix) == 0
HasPrefix(str, prefix) ==
    /\ Len(prefix) <= Len(str)
    /\ SubSeq(str, 1, Len(prefix)) = prefix

RECURSIVE StripSlashes(_)
StripSlashes(s) ==
    IF s # <<>> /\ Head(s) = "/" THEN StripSlashes(Tail(s)) ELSE s

\* git_buf_joinpath(buf, a, b): a and b joined with exactly one separator
\* when a is not empty.
git_buf_joinpath(a, b) ==
    IF a = <<>> THEN b
    ELSE IF a[Len(a)] = "/" THEN a \o StripSlashes(b)
    ELSE a \o <<"/">> \o StripSlashes(b)

\* git_buf_truncate(buf, len)
git_buf_truncate(buf, len) == SubSeq(buf, 1, len)

\* ------------------------------------------------------------------- trees

\* A tree is a sequence of entries in git's tree order.  A directory
\* entry's object id is represented by the tree it resolves to (ids are
\* content addresses: equal ids, equal trees); its oid field is unused.
BlobEntry(name, attr, oid) ==
    [name |-> name, attr |-> attr, oid |-> oid, tree |-> <<>>]
DirEntry(name, tree) ==
    [name |-> name, attr |-> S_IFDIR, oid |-> Zero, tree |-> tree]

\* The sort key of a tree entry: directories sort as if suffixed with '/'.
EntryKey(e) == IF S_ISDIR(e.attr) THEN e.name \o <<"/">> ELSE e.name

LeafOpts(name) ==
    {<<>>} \cup { <<BlobEntry(name, FILE_MODE, h)>> : h \in Hashes }

SubTrees ==
    { x \o y :
        x \in LeafOpts(<<"a">>)
              \cup { <<DirEntry(<<"a">>, <<BlobEntry(<<"a">>, FILE_MODE, 1)>>)>> },
        y \in LeafOpts(<<"b">>) } \ {<<>>}

Trees ==
    { x \o y :
        x \in LeafOpts(<<"a">>)
              \cup { <<BlobEntry(<<"a">>, EXEC_MODE, 1)>> }
              \cup { <<DirEntry(<<"a">>, t)>> : t \in SubTrees },
        y \in LeafOpts(<<"b">>) }

\* One tuple of the tree-diff collaborator.
TreeDiffData(status, ea, eb, path) ==
    [status |-> status, path |-> path,
     old_attr |-> ea.attr, new_attr |-> eb.attr,
     old_oid |-> ea.oid, new_oid |-> eb.oid,
     old_tree |-> ea.tree, new_tree |-> eb.tree]

NoEntry == [name |-> <<>>, attr |-> 0, oid |-> Zero, tree |-> <<>>]

\* git_tree_diff(old, new, cb): the tuples for one pair of trees, in sort
\* order; an entry that is a blob on one side and a tree on the other
\* comes out as a deletion and an addition.
RECURSIVE git_tree_diff(_, _)
git_tree_diff(a, b) ==
    IF a = <<>> /\ b = <<>> THEN <<>>
    ELSE IF b = <<>> \/ (a # <<>> /\ strcmp(EntryKey(Head(a)), EntryKey(Head(b))) < 0)
    THEN <<TreeDiffData(GIT_STATUS_DELETED, Head(a), NoEntry, Head(a).name)>>
            \o git_tree_diff(Tail(a), b)
    ELSE IF a = <<>> \/ strcmp(EntryKey(Head(a)), EntryKey(Head(b))) > 0
    THEN <<TreeDiffData(GIT_STATUS_ADDED, NoEntry, Head(b), Head(b).name)>>
            \o git_tree_diff(a, Tail(b))
    ELSE IF Head(a) = Head(b) THEN git_tree_diff(Tail(a), Tail(b))
    ELSE <<TreeDiffData(GIT_STATUS_MODIFIED, Head(a), Head(b), Head(a).name)>>
            \o git_tree_diff(Tail(a), Tail(b))

\* git_tree_walk(tree, cb, GIT_TREEWALK_POST): every entry with the root it
\* lies under, children before their directory.
RECURSIVE git_tree_walk(_, _)
git_tree_walk(tree, root) ==
    IF tree = <<>> THEN <<>>
    ELSE LET e == Head(tree) IN
         (IF S_ISDIR(e.attr)
          THEN git_tree_walk(e.tree, root \o e.name \o <<"/">>)
          ELSE <<>>)
         \o << [root |-> root, entry |-> e] >>
         \o git_tree_walk(Tail(tree), root)

\* ------------------------------------------------------------------- index

\* The stat cache of every index entry of the inputs holds the value 1 in
\* each field; a workdir entry differs by holding 2.
IndexEntry(path, mode, oid) ==
    [path |-> path, mode |-> mode, oid |-> oid, file_size |-> 1,
     ctime |-> 1, mtime |-> 1, dev |-> 1, ino |-> 1, uid |-> 1, gid |-> 1]

IdxOpts(path) ==
    {<<>>} \cup { <<IndexEntry(path, FILE_MODE, h)>> : h \in Hashes }

\* No index holds both a file and entries below a directory of its name.
Legal(idx) ==
    ~ \E j, k \in 1..Len(idx) : idx[j].path = <<"a">> /\ Len(idx[k].path) > 1

\* Path-sorted indexes over a, a/a, a/b, b.
Indices ==
    { i \in { a \o aa \o ab \o b :
                a \in IdxOpts(<<"a">>), aa \in IdxOpts(<<"a", "/", "a">>),
                ab \in IdxOpts(<<"a", "/", "b">>),
                b \in IdxOpts(<<"b">>) \cup { <<IndexEntry(<<"b">>, EXEC_MODE, 1)>> } } :
        Legal(i) }

\* The indexes the working directory is compared with.
WdIdxOpts(path) == { <<>>, <<IndexEntry(path, FILE_MODE, 1)>> }

WdIndices ==
    { i \in { a \o aa \o ab \o b :
                a \in WdIdxOpts(<<"a">>) \cup { <<IndexEntry(<<"a">>, EXEC_MODE, 1)>> },
                aa \in WdIdxOpts(<<"a", "/", "a">>),
                ab \in WdIdxOpts(<<"a", "/", "b">>),
                b \in WdIdxOpts(<<"b">>) } :
        Legal(i) }

\* git_index_get(index, pos): the entry at 0-based pos, or NULL.
NoIndexEntry == IndexEntry(NULL, 0, Zero)
git_index_get(idx, pos) == IF pos < Len(idx) THEN idx[pos + 1] ELSE NoIndexEntry

\* ----------------------------------------------------------------- workdir

StatFields == {"ctime", "mtime", "dev", "ino", "uid", "gid"}

\* A directory entry as lstat sees it.  changed names the stat field (if
\* any) that differs from the cached value; content is the id hashing the
\* file's bytes would give.
WdFile(name, st_mode, st_size, changed, content) ==
    [name |-> name, st_mode |-> st_mode, st_size |-> st_size,
     st_ctime |-> IF changed = "ctime" THEN 2 ELSE 1,
     st_mtime |-> IF changed = "mtime" THEN 2 ELSE 1,
     st_dev |-> IF changed = "dev" THEN 2 ELSE 1,
     st_ino |-> IF changed = "ino" THEN 2 ELSE 1,
     st_uid |-> IF changed = "uid" THEN 2 ELSE 1,
     st_gid |-> IF changed = "gid" THEN 2 ELSE 1,
     content |-> content, children |-> {}, dotgit |-> FALSE]

WdDir(name, children, dotgit) ==
    [name |-> name, st_mode |-> 16877, st_size |-> 1,
     st_ctime |-> 1, st_mtime |-> 1, st_dev |-> 1, st_ino |-> 1,
     st_uid |-> 1, st_gid |-> 1,
     content |-> Zero, children |-> children, dotgit |-> dotgit]

\* Raw modes: 0100664, 0100755, 0120777 (symlink), 0010644 (fifo).
WdFull(name) ==
    { WdFile(name, 33204, 1, "none", 1) }
    \cup { WdFile(name, 33204, 1, f, c) : f \in StatFields, c \in Hashes }
    \cup { WdFile(name, 33204, 2, "none", 1), WdFile(name, 33204, 2, "ctime", 1),
           WdFile(name, 33261, 1, "none", 1), WdFile(name, 41471, 1, "none", 1),
           WdFile(name, 4516, 1, "none", 1) }

WdFew(name) ==
    { WdFile(name, 33204, 1, "none", 1), WdFile(name, 33204, 2, "none", 1),
      WdFile(name, 33204, 1, "mtime", 1) }

WdSubDirs ==
    { x \cup y :
        x \in {{}} \cup { {f} : f \in WdFew(<<"a">>) },
        y \in {{}} \cup { {f} : f \in WdFew(<<"b">>) } }

\* The working directory: the set of entries of its root.
Workdirs ==
    { x \cup y :
        x \in {{}} \cup { {f} : f \in WdFull(<<"a">>) }
                   \cup { {WdDir(<<"a">>, ch, dg)} : ch \in WdSubDirs, dg \in BOOLEAN },
        y \in {{}} \cup { {f} : f \in WdFew(<<"b">>) } }

\* diff_workdir_insert: the workdir_entry built for one directory entry.
diff_workdir_insert(dir, e) ==
    [path |-> IF S_ISDIR(e.st_mode)
              THEN git_buf_joinpath(dir, e.name) \o <<"/">>
              ELSE git_buf_joinpath(dir, e.name),
     mode |-> canonical_mode(e.st_mode), st |-> e]

\* git_vector_sort(&files): the entries in byte-wise path order.
RECURSIVE git_vector_sort(_)
git_vector_sort(S) ==
    IF S = {} THEN <<>>
    ELSE LET m == CHOOSE x \in S : \A y \in S : strcmp(x.path, y.path) <= 0
         IN <<m>> \o git_vector_sort(S \ {m})

\* The sorted entries diff_workdir_walk iterates for dir.
WorkdirScan(dir, entries) ==
    git_vector_sort({ diff_workdir_insert(dir, e) : e \in entries })

\* ------------------------------------------------------------ delta records

\* A constructor that exchanges the status under reverse but fills the
\* sides by the status it was called with.
file_delta_new__from_one_unswapped(rev, status, attr, oid, path) ==
    LET st == IF rev
              THEN (IF status = GIT_STATUS_ADDED
                    THEN GIT_STATUS_DELETED ELSE GIT_STATUS_ADDED)
              ELSE status
    IN IF status = GIT_STATUS_ADDED
       THEN [status |-> st, path |-> path, old_attr |-> 0, new_attr |-> attr,
             old_oid |-> Zero, new_oid |-> oid]
       ELSE [status |-> st, path |-> path, old_attr |-> attr, new_attr |-> 0,
             old_oid |-> oid, new_oid |-> Zero]

\* A constructor that names every record by the last component of its
\* path and leaves the rest as it is.
file_delta_new__from_one_basename(rev, status, attr, oid, path) ==
    LET st == IF rev
              THEN (IF status = GIT_STATUS_ADDED
                    THEN GIT_STATUS_DELETED ELSE GIT_STATUS_ADDED)
              ELSE status
        base == SubSeq(path, Len(path), Len(path))
    IN IF st = GIT_STATUS_ADDED
       THEN [status |-> st, path |-> base, old_attr |-> 0, new_attr |-> attr,
             old_oid |-> Zero, new_oid |-> oid]
       ELSE [status |-> st, path |-> base, old_attr |-> attr, new_attr |-> 0,
             old_oid |-> oid, new_oid |-> Zero]

file_delta_new__from_one(rev, status, attr, oid, path) ==
    LET st == IF rev
              THEN (IF status = GIT_STATUS_ADDED
                    THEN GIT_STATUS_DELETED ELSE GIT_STATUS_ADDED)
              ELSE status
    IN IF st = GIT_STATUS_ADDED
       THEN [status |-> st, path |-> path, old_attr |-> 0, new_attr |-> attr,
             old_oid |-> Zero, new_oid |-> oid]
       ELSE [status |-> st, path |-> path, old_attr |-> attr, new_attr |-> 0,
             old_oid |-> oid, new_oid |-> Zero]

\* A constructor that exchanges modes and status under reverse but not
\* the hashes.
file_delta_new__from_tree_diff_hashes_kept(rev, tdiff, buf) ==
    [status |-> CASE rev /\ tdiff.status = GIT_STATUS_ADDED -> GIT_STATUS_DELETED
                  [] rev /\ tdiff.status = GIT_STATUS_DELETED -> GIT_STATUS_ADDED
                  [] OTHER -> tdiff.status,
     path |-> buf,
     old_attr |-> IF rev THEN tdiff.new_attr ELSE tdiff.old_attr,
     new_attr |-> IF rev THEN tdiff.old_attr ELSE tdiff.new_attr,
     old_oid |-> tdiff.old_oid, new_oid |-> tdiff.new_oid]

\* The record is named by the list's path buffer, not by tdiff.path.
file_delta_new__from_tree_diff(rev, tdiff, buf) ==
    IF ~rev
    THEN [status |-> tdiff.status, path |-> buf,
          old_attr |-> tdiff.old_attr, new_attr |-> tdiff.new_attr,
          old_oid |-> tdiff.old_oid, new_oid |-> tdiff.new_oid]
    ELSE [status |-> CASE tdiff.status = GIT_STATUS_ADDED -> GIT_STATUS_DELETED
                       [] tdiff.status = GIT_STATUS_DELETED -> GIT_STATUS_ADDED
                       [] OTHER -> tdiff.status,
          path |-> buf,
          old_attr |-> tdiff.new_attr, new_attr |-> tdiff.old_attr,
          old_oid |-> tdiff.new_oid, new_oid |-> tdiff.old_oid]

Min(a, b) == IF a < b THEN a ELSE b

RECURSIVE DrainCount_inclusive(_, _, _)
\* A drain that also takes the entry whose path equals stop_path.
DrainCount_inclusive(idx, pos, stop_path) ==
    IF pos < Len(idx)
       /\ (stop_path = NULL \/ strcmp(idx[pos + 1].path, stop_path) <= 0)
    THEN 1 + DrainCount_inclusive(idx, pos + 1, stop_path)
    ELSE 0

\* How many index entries from pos on precede stop_path (all of them when
\* stop_path is NULL): the iterations of add_new_index_deltas' loop.
RECURSIVE DrainCount(_, _, _)
DrainCount(idx, pos, stop_path) ==
    IF pos < Len(idx)
       /\ (stop_path = NULL \/ strcmp(idx[pos + 1].path, stop_path) < 0)
    THEN 1 + DrainCount(idx, pos + 1, stop_path)
    ELSE 0

\* add_new_index_deltas with room for `budget` record allocations: the
\* records appended, the cursor afterwards and the status returned.
add_new_index_deltas(rev, idx, pos, status, stop_path, budget) ==
    LET k == DrainCount(idx, pos, stop_path)
        n == Min(k, budget)
    IN [recs |-> [i \in 1..n |->
                    file_delta_new__from_one(rev, status, idx[pos + i].mode,
                                             idx[pos + i].oid, idx[pos + i].path)],
        pos |-> pos + n,
        error |-> IF n < k THEN GIT_ENOMEM ELSE GIT_SUCCESS]

\* ------------------------------------------------------------------- state

VARIABLES
    op,          \* the entry point called: tree_to_tree, index_to_tree, workdir_to_index
    reverse,     \* opts->flags & GIT_DIFF_REVERSE
    old_tree,    \* the old tree argument
    new_tree,    \* the new tree argument
    index,       \* the repository's index
    workdir,     \* the entries of the working directory's root
    phase,       \* idle, running, returned, aborted (assert), crashed (NULL read)
    files,       \* diff->files
    mirror,      \* the list the same call builds with GIT_DIFF_REVERSE toggled
    pfx,         \* diff->pfx
    dstatus,     \* diff->status
    index_pos,   \* info.index_pos
    ignores,     \* info.ignores: the directory whose rules it points to, or NULL
    loaded,      \* directories whose ignore rules are loaded and not yet freed
    stack,       \* the walks in progress, innermost last
    error,       \* the status travelling up the call chain
    ret,         \* the entry point's return value
    out,         \* the caller's output pointer: unset, or list
    list_live,   \* the git_diff_list is allocated and not freed
    live_deltas, \* delta records allocated and not freed
    first_err,   \* the first failure that happened in the call
    hashed       \* paths whose content was hashed by the call

\* The state of one git_diff_foreach call: the list it walks (each record
\* with its blob pointers and binary flag), the callbacks it was given, the
\* loop index, the status so far, and the callbacks invoked so far.
VARIABLES fe_phase, fe_list, fe_cbs, fe_force_text, info_index, fe_error,
          fe_emitted, fe_log, fe_ret

\* One git_diff_list from git_diff_list_alloc to git_diff_list_free: the
\* options it was given, its two prefix pointers, the prefix copies on the
\* heap and how often each prefix string was handed to git__free.
VARIABLES dl_phase, dl_opts, dl_src_prefix, dl_dst_prefix, dl_allocs, dl_frees

listVars == <<dl_phase, dl_opts, dl_src_prefix, dl_dst_prefix, dl_allocs,
              dl_frees>>

\* diff_output_cb handed one one-buffer tuple: what the tuple was made
\* of, its text, and what the function did with it.
VARIABLES hk_phase, hk_input, hk_header, hk_result

hunkVars == <<hk_phase, hk_input, hk_header, hk_result>>

\* The progress value computed for one call of file_cb: the record's
\* position, the length of the list, and the float handed over.
VARIABLES pg_index, pg_total, pg_progress

progressVars == <<pg_index, pg_total, pg_progress>>

\* git_diff_blobs: its arguments, the record it builds for the callbacks,
\* the callbacks made and how far the call has got.
VARIABLES bl_phase, bl_args, bl_delta, bl_log, bl_emitted

blobVars == <<bl_phase, bl_args, bl_delta, bl_log, bl_emitted>>

auxVars == <<listVars, hunkVars, progressVars, blobVars>>

driverVars == <<fe_phase, fe_list, fe_cbs, fe_force_text, info_index,
                fe_error, fe_emitted, fe_log, fe_ret>>

enumVars == <<op, reverse, old_tree, new_tree, index, workdir, phase, files,
              mirror, pfx, dstatus, index_pos, ignores, loaded, stack, error,
              ret, out, list_live, live_deltas, first_err, hashed>>

Frame(kind, todo, pfx_len, dir, old_ignores) ==
    [kind |-> kind, todo |-> todo, pfx_len |-> pfx_len, dir |-> dir,
     old_ignores |-> old_ignores]

Top == stack[Len(stack)]
Pop == SubSeq(stack, 1, Len(stack) - 1)
\* The stack with the innermost walk advanced past its first item.
Advance == [stack EXCEPT ![Len(stack)].todo = Tail(@)]

EnumInit ==
    /\ op = "none" /\ reverse = FALSE
    /\ old_tree = <<>> /\ new_tree = <<>> /\ index = <<>> /\ workdir = {}
    /\ phase = "idle"
    /\ files = <<>> /\ mirror = <<>> /\ pfx = <<>> /\ dstatus = "none"
    /\ index_pos = 0 /\ ignores = NULL /\ loaded = {}
    /\ stack = <<>>
    /\ error = GIT_SUCCESS /\ ret = "none" /\ out = "unset"
    /\ list_live = FALSE /\ live_deltas = 0
    /\ first_err = GIT_SUCCESS /\ hashed = {}

\* A step of a running enumeration: records appended (recs with the call's
\* reverse flag, mrecs with the flag toggled), the status it leaves.
Emit(recs, mrecs, err) ==
    /\ files' = files \o recs
    /\ mirror' = mirror \o mrecs
    /\ live_deltas' = live_deltas + Len(recs)
    /\ error' = err
    /\ first_err' = IF first_err = GIT_SUCCESS THEN err ELSE first_err

\* git_diff_list_alloc fails: the entry point returns GIT_ENOMEM at once.
AllocFailed ==
    /\ phase' = "returned" /\ ret' = GIT_ENOMEM /\ error' = GIT_ENOMEM
    /\ first_err' = GIT_ENOMEM
    /\ UNCHANGED <<files, mirror, pfx, dstatus, index_pos, ignores, loaded,
                   stack, out, list_live, live_deltas, hashed>>

\* An entry point that hands the list over whatever the status.
EntryReturn_always_stores(err) ==
    [ret |-> err, out |-> "list", list_live |-> TRUE, freed |-> FALSE]

\* The tail of every entry point: on success the list goes to the caller,
\* otherwise git_diff_list_free releases it with its records.
EntryReturn(err) ==
    [ret |-> err,
     out |-> IF err = GIT_SUCCESS THEN "list" ELSE "unset",
     list_live |-> err = GIT_SUCCESS,
     freed |-> err # GIT_SUCCESS]

Finish(err) ==
    LET r == EntryReturn(err) IN
    /\ phase' = "returned"
    /\ ret' = r.ret /\ out' = r.out /\ list_live' = r.list_live
    /\ pfx' = <<>>
    /\ stack' = <<>>

\* ----------------------------------------------------- tree-pair enumerator

git_diff_tree_to_tree ==
    /\ phase = "idle"
    /\ \E o \in Trees, n \in Trees, rev \in BOOLEAN, alloc_ok \in BOOLEAN :
        /\ op' = "tree_to_tree" /\ reverse' = rev
        /\ old_tree' = o /\ new_tree' = n
        /\ UNCHANGED <<index, workdir>>
        /\ IF alloc_ok
           THEN /\ phase' = "running" /\ list_live' = TRUE
                /\ stack' = <<Frame("tdiff", git_tree_diff(o, n), 0, NULL, NULL)>>
                /\ UNCHANGED <<files, mirror, pfx, dstatus, index_pos, ignores,
                               loaded, error, ret, out, live_deltas, first_err,
                               hashed>>
           ELSE AllocFailed
    /\ UNCHANGED <<driverVars, auxVars>>

tree_to_tree_diff_cb ==
    /\ phase = "running" /\ op = "tree_to_tree" /\ error = GIT_SUCCESS
    /\ Top.kind = "tdiff" /\ Top.todo # <<>>
    /\ LET tdiff == Head(Top.todo)
           joined == git_buf_joinpath(pfx, tdiff.path)
       IN \E fault \in {"none", "joinpath", "step"} :
            LET ok == fault = "none" IN
            IF fault = "joinpath"
            THEN /\ stack' = Advance
                 /\ UNCHANGED <<pfx, dstatus>>
                 /\ Emit(<<>>, <<>>, GIT_ENOMEM)
            ELSE IF S_ISDIR(tdiff.old_attr) /\ S_ISDIR(tdiff.new_attr)
            THEN \* both trees are looked up and diffed with the deeper prefix
                 /\ IF ok
                    THEN /\ stack' = Append(Advance,
                                Frame("tdiff",
                                      git_tree_diff(tdiff.old_tree, tdiff.new_tree),
                                      Len(pfx), NULL, NULL))
                         /\ pfx' = joined
                         /\ Emit(<<>>, <<>>, GIT_SUCCESS)
                    ELSE /\ stack' = Advance
                         /\ pfx' = git_buf_truncate(joined, Len(pfx))
                         /\ Emit(<<>>, <<>>, GIT_ENOTFOUND)
                 /\ UNCHANGED dstatus
            ELSE IF S_ISDIR(tdiff.old_attr) \/ S_ISDIR(tdiff.new_attr)
            THEN LET added_dir == S_ISDIR(tdiff.new_attr)
                     tree == IF added_dir THEN tdiff.new_tree ELSE tdiff.old_tree
                 IN /\ dstatus' = IF added_dir THEN GIT_STATUS_ADDED
                                               ELSE GIT_STATUS_DELETED
                    /\ IF ok
                       THEN /\ stack' = Append(Advance,
                                   Frame("twalk", git_tree_walk(tree, <<>>),
                                         Len(pfx), NULL, NULL))
                            /\ pfx' = joined
                            /\ Emit(<<>>, <<>>, GIT_SUCCESS)
                       ELSE /\ stack' = Advance
                            /\ pfx' = git_buf_truncate(joined, Len(pfx))
                            /\ Emit(<<>>, <<>>, GIT_ENOTFOUND)
            ELSE /\ stack' = Advance
                 /\ pfx' = git_buf_truncate(joined, Len(pfx))
                 /\ UNCHANGED dstatus
                 /\ IF ok
                    THEN Emit(<<file_delta_new__from_tree_diff(reverse, tdiff, joined)>>,
                              <<file_delta_new__from_tree_diff(~reverse, tdiff, joined)>>,
                              GIT_SUCCESS)
                    ELSE Emit(<<>>, <<>>, GIT_ENOMEM)
    /\ UNCHANGED <<op, reverse, old_tree, new_tree, index, workdir, phase,
                   index_pos, ignores, loaded, ret, out, list_live, hashed>>
    /\ UNCHANGED <<driverVars, auxVars>>

\* The walk of a tree present on one side only: one record per blob.
create_diff_for_tree_entry ==
    /\ phase = "running" /\ op = "tree_to_tree" /\ error = GIT_SUCCESS
    /\ Top.kind = "twalk" /\ Top.todo # <<>>
    /\ LET item == Head(Top.todo)
           entry == item.entry
           joined == git_buf_joinpath(git_buf_joinpath(pfx, item.root), entry.name)
       IN /\ stack' = Advance
          /\ pfx' = git_buf_truncate(joined, Len(pfx))
          /\ IF S_ISDIR(entry.attr)
             THEN Emit(<<>>, <<>>, GIT_SUCCESS)
             ELSE \E fault \in {"none", "joinpath", "alloc"} :
                    IF fault = "none"
                    THEN Emit(<<file_delta_new__from_one(reverse, dstatus, entry.attr,
                                                         entry.oid, joined)>>,
                              <<file_delta_new__from_one(~reverse, dstatus, entry.attr,
                                                         entry.oid, joined)>>,
                              GIT_SUCCESS)
                    ELSE Emit(<<>>, <<>>, GIT_ENOMEM)
    /\ UNCHANGED <<op, reverse, old_tree, new_tree, index, workdir, phase,
                   dstatus, index_pos, ignores, loaded, ret, out, list_live,
                   hashed>>
    /\ UNCHANGED <<driverVars, auxVars>>

\* A nested git_tree_diff or git_tree_walk is over (or failed): the callback
\* that started it frees the trees, truncates the prefix and returns.
tree_diff_return ==
    /\ phase = "running" /\ op = "tree_to_tree"
    /\ Len(stack) > 1
    /\ Top.todo = <<>> \/ error # GIT_SUCCESS
    /\ stack' = Pop
    /\ pfx' = git_buf_truncate(pfx, Top.pfx_len)
    /\ UNCHANGED <<op, reverse, old_tree, new_tree, index, workdir, phase,
                   files, mirror, dstatus, index_pos, ignores, loaded, error,
                   ret, out, list_live, live_deltas, first_err, hashed>>
    /\ UNCHANGED <<driverVars, auxVars>>

git_diff_tree_to_tree_return ==
    /\ phase = "running" /\ op = "tree_to_tree"
    /\ Len(stack) = 1
    /\ Top.todo = <<>> \/ error # GIT_SUCCESS
    /\ Finish(error)
    /\ live_deltas' = IF EntryReturn(error).freed THEN 0 ELSE live_deltas
    /\ UNCHANGED <<op, reverse, old_tree, new_tree, index, workdir, files,
                   mirror, dstatus, index_pos, ignores, loaded, error,
                   first_err, hashed>>
    /\ UNCHANGED <<driverVars, auxVars>>

\* --------------------------------------------------- tree/index enumerator

\* git_tree_entry_type(entry) == GIT_OBJ_BLOB
IsBlobEntry(entry) == ~S_ISDIR(entry.attr) /\ ~S_ISGITLINK(entry.attr)

\* A comparison that looks at the hashes only.
IndexTreeDiffers_oid_only(idx_entry, tree_entry) ==
    idx_entry.oid # tree_entry.oid

\* The test that makes a matched path a modification.
IndexTreeDiffers(idx_entry, tree_entry) ==
    idx_entry.oid # tree_entry.oid \/ idx_entry.mode # tree_entry.attr

\* The tuple diff_index_to_tree_cb hands to file_delta_new__from_tree_diff.
IndexTreeData(idx_entry, tree_entry) ==
    [status |-> GIT_STATUS_MODIFIED, path |-> idx_entry.path,
     old_attr |-> tree_entry.attr, new_attr |-> idx_entry.mode,
     old_oid |-> tree_entry.oid, new_oid |-> idx_entry.oid,
     old_tree |-> <<>>, new_tree |-> <<>>]

\* What one call of diff_index_to_tree_cb for a blob at `path` does when
\* `budget` record allocations succeed: records, cursor, status.
IndexToTreeStep(rev, idx, pos, tree_entry, path, budget) ==
    LET k == DrainCount(idx, pos, path)
        d == add_new_index_deltas(rev, idx, pos, GIT_STATUS_ADDED, path, budget)
        idx_entry == git_index_get(idx, d.pos)
    IN IF d.error # GIT_SUCCESS THEN d
       ELSE IF idx_entry.path = NULL \/ strcmp(idx_entry.path, path) > 0
       THEN IF budget > k
            THEN [recs |-> Append(d.recs,
                       file_delta_new__from_one(rev, GIT_STATUS_DELETED,
                           tree_entry.attr, tree_entry.oid, path)),
                  pos |-> d.pos, error |-> GIT_SUCCESS]
            ELSE [recs |-> d.recs, pos |-> d.pos, error |-> GIT_ENOMEM]
       ELSE IF IndexTreeDiffers(idx_entry, tree_entry)
       THEN IF budget > k
            THEN [recs |-> Append(d.recs,
                       file_delta_new__from_tree_diff(rev,
                           IndexTreeData(idx_entry, tree_entry), path)),
                  pos |-> d.pos + 1, error |-> GIT_SUCCESS]
            ELSE [recs |-> d.recs, pos |-> d.pos + 1, error |-> GIT_ENOMEM]
       ELSE [recs |-> d.recs, pos |-> d.pos + 1, error |-> GIT_SUCCESS]

git_diff_index_to_tree ==
    /\ phase = "idle"
    /\ \E o \in Trees, i \in Indices, rev \in BOOLEAN,
          alloc_ok \in BOOLEAN, index_ok \in BOOLEAN :
        /\ op' = "index_to_tree" /\ reverse' = rev
        /\ old_tree' = o /\ index' = i
        /\ UNCHANGED <<new_tree, workdir>>
        /\ IF alloc_ok
           THEN /\ phase' = "running" /\ list_live' = TRUE
                /\ stack' = <<Frame("iwalk",
                                    IF index_ok THEN git_tree_walk(o, <<>>) ELSE <<>>,
                                    0, NULL, NULL)>>
                /\ Emit(<<>>, <<>>, IF index_ok THEN GIT_SUCCESS ELSE GIT_EOSERR)
                /\ UNCHANGED <<pfx, dstatus, index_pos, ignores, loaded, ret,
                               out, hashed>>
           ELSE AllocFailed
    /\ UNCHANGED <<driverVars, auxVars>>

diff_index_to_tree_cb ==
    /\ phase = "running" /\ op = "index_to_tree" /\ error = GIT_SUCCESS
    /\ Top.kind = "iwalk" /\ Top.todo # <<>>
    /\ LET item == Head(Top.todo)
           tree_entry == item.entry
           path == git_buf_joinpath(item.root, tree_entry.name)
       IN /\ stack' = Advance
          /\ IF ~IsBlobEntry(tree_entry)
             THEN /\ Emit(<<>>, <<>>, GIT_SUCCESS)
                  /\ UNCHANGED <<pfx, index_pos>>
             ELSE \E joined \in BOOLEAN :
                    IF ~joined
                    THEN /\ Emit(<<>>, <<>>, GIT_ENOMEM)
                         /\ UNCHANGED <<pfx, index_pos>>
                    ELSE \E budget \in 0..(DrainCount(index, index_pos, path) + 1) :
                           LET r == IndexToTreeStep(reverse, index, index_pos,
                                                    tree_entry, path, budget)
                               m == IndexToTreeStep(~reverse, index, index_pos,
                                                    tree_entry, path, budget)
                           IN /\ pfx' = path
                              /\ index_pos' = r.pos
                              /\ Emit(r.recs, m.recs, r.error)
    /\ UNCHANGED <<op, reverse, old_tree, new_tree, index, workdir, phase,
                   dstatus, ignores, loaded, ret, out, list_live, hashed>>
    /\ UNCHANGED <<driverVars, auxVars>>

\* After the walk: the remaining index entries are additions; then the
\* index and the path buffer are released and the list returned or freed.
git_diff_index_to_tree_return ==
    /\ phase = "running" /\ op = "index_to_tree"
    /\ Top.todo = <<>> \/ error # GIT_SUCCESS
    /\ \E budget \in 0..(Len(index) - index_pos) :
         LET none == [recs |-> <<>>, pos |-> index_pos, error |-> error]
             r == IF error = GIT_SUCCESS
                  THEN add_new_index_deltas(reverse, index, index_pos,
                                            GIT_STATUS_ADDED, NULL, budget)
                  ELSE none
             m == IF error = GIT_SUCCESS
                  THEN add_new_index_deltas(~reverse, index, index_pos,
                                            GIT_STATUS_ADDED, NULL, budget)
                  ELSE none
         IN /\ index_pos' = r.pos
            /\ files' = files \o r.recs
            /\ mirror' = mirror \o m.recs
            /\ error' = r.error
            /\ first_err' = IF first_err = GIT_SUCCESS THEN r.error ELSE first_err
            /\ Finish(r.error)
            /\ live_deltas' = IF EntryReturn(r.error).freed
                              THEN 0 ELSE live_deltas + Len(r.recs)
    /\ UNCHANGED <<op, reverse, old_tree, new_tree, index, workdir, dstatus,
                   ignores, loaded, hashed>>
    /\ UNCHANGED <<driverVars, auxVars>>

\* ------------------------------------------------- index/workdir enumerator

\* git_repository_workdir(repo): paths are taken relative to it.
WorkdirRoot == <<>>

\* A test that lets a size change go on to the stat hints.
ForcedModified_mode_only(wd, idx_entry) ==
    wd.mode # idx_entry.mode

\* wd_entry->mode != idx_entry->mode || st_size != file_size
ForcedModified(wd, idx_entry) ==
    wd.mode # idx_entry.mode \/ wd.st.st_size # idx_entry.file_size

\* The stat fields that only hint at a change.
StatChanged(wd, idx_entry) ==
    \/ wd.st.st_ctime # idx_entry.ctime
    \/ wd.st.st_mtime # idx_entry.mtime
    \/ wd.st.st_dev # idx_entry.dev
    \/ wd.st.st_ino # idx_entry.ino
    \/ wd.st.st_uid # idx_entry.uid
    \/ wd.st.st_gid # idx_entry.gid

\* The tuple diff_workdir_to_index_cb hands to file_delta_new__from_tree_diff.
WorkdirData(idx_entry, wd, new_oid) ==
    [status |-> GIT_STATUS_MODIFIED, path |-> wd.path,
     old_attr |-> idx_entry.mode, new_attr |-> wd.mode,
     old_oid |-> idx_entry.oid, new_oid |-> new_oid,
     old_tree |-> <<>>, new_tree |-> <<>>]

\* The deleted and added records of a blob/symlink type change.
SplitRecords(rev, idx_entry, wd) ==
    << file_delta_new__from_one(rev, GIT_STATUS_DELETED, idx_entry.mode,
                                idx_entry.oid, idx_entry.path),
       file_delta_new__from_one(rev, GIT_STATUS_ADDED, wd.mode, Zero, wd.path) >>

\* info->ignores while the entries of dir are processed.
WalkIgnores(old_ignores, dir) == old_ignores

\* The start of diff_workdir_walk(dir): the directory is listed, its ignore
\* rules loaded, the entries sorted.  scan names the step that fails, if any.
WalkFrame(dir, entries, scan, old_ignores) ==
    Frame("wwalk", IF scan = "ok" THEN WorkdirScan(dir, entries) ELSE <<>>,
          0, dir, old_ignores)

WdStep(stk, pos, ph, hs, ld) ==
    /\ stack' = stk /\ index_pos' = pos /\ phase' = ph /\ hashed' = hs
    /\ loaded' = ld

git_diff_workdir_to_index ==
    /\ phase = "idle"
    /\ \E w \in Workdirs, i \in WdIndices, rev \in BOOLEAN,
          alloc_ok \in BOOLEAN, scan \in {"ok", "index", "direach", "ignore"} :
        /\ op' = "workdir_to_index" /\ reverse' = rev
        /\ workdir' = w /\ index' = i
        /\ UNCHANGED <<old_tree, new_tree>>
        /\ IF alloc_ok
           THEN /\ phase' = "running" /\ list_live' = TRUE
                /\ stack' = <<WalkFrame(WorkdirRoot, w, scan, ignores)>>
                /\ ignores' = WalkIgnores(ignores, WorkdirRoot)
                /\ loaded' = IF scan = "ok" THEN {WorkdirRoot} ELSE {}
                /\ Emit(<<>>, <<>>, IF scan = "ok" THEN GIT_SUCCESS ELSE GIT_EOSERR)
                /\ UNCHANGED <<pfx, dstatus, index_pos, ret, out, hashed>>
           ELSE AllocFailed
    /\ UNCHANGED <<driverVars, auxVars>>

\* found_new_workdir_entry after `recs` were appended by the caller, with
\* room for `room` more record allocations.
found_new_workdir_entry(wd, recs, mrecs, pos, room) ==
    IF wd.mode = 0
    THEN /\ WdStep(Advance, pos, "running", hashed, loaded)
         /\ Emit(recs, mrecs, GIT_SUCCESS)
    ELSE \E look \in {"error", "ignored", "untracked"} :
           IF look = "error"
           THEN /\ WdStep(Advance, pos, "running", hashed, loaded)
                /\ Emit(recs, mrecs, GIT_EOSERR)
           ELSE LET status == IF look = "ignored" THEN GIT_STATUS_IGNORED
                                                  ELSE GIT_STATUS_UNTRACKED
                IN \E asserts \in BOOLEAN :
                     \* the status is neither added nor deleted: a build
                     \* with assertions aborts in file_delta_new__from_one
                     IF asserts
                     THEN /\ WdStep(Advance, pos, "aborted", hashed, loaded)
                          /\ Emit(recs, mrecs, GIT_SUCCESS)
                     ELSE /\ WdStep(Advance, pos, "running", hashed, loaded)
                          /\ IF room > 0
                             THEN Emit(Append(recs, file_delta_new__from_one(
                                           reverse, status, wd.mode, Zero, wd.path)),
                                       Append(mrecs, file_delta_new__from_one(
                                           ~reverse, status, wd.mode, Zero, wd.path)),
                                       GIT_SUCCESS)
                             ELSE Emit(recs, mrecs, GIT_ENOMEM)

\* What an unmatched directory leads to.  With no index entry left,
\* git__prefixcmp reads through a NULL idx_entry.
DirOutcomes(idx_entry, wd) ==
    {"nomem"} \cup
    (IF wd.st.dotgit THEN {"dotgit"}
     ELSE IF idx_entry.path = NULL THEN {"crash", "recurse", "untracked"}
     ELSE IF HasPrefix(idx_entry.path, wd.path) THEN {"recurse"}
     ELSE {"untracked"})

\* A modified record for a matched entry.
workdir_modified(wd, idx_entry, new_oid, recs, mrecs, room) ==
    IF room > 0
    THEN Emit(Append(recs, file_delta_new__from_tree_diff(
                  reverse, WorkdirData(idx_entry, wd, new_oid), pfx)),
              Append(mrecs, file_delta_new__from_tree_diff(
                  ~reverse, WorkdirData(idx_entry, wd, new_oid), pfx)),
              GIT_SUCCESS)
    ELSE Emit(recs, mrecs, GIT_ENOMEM)

diff_workdir_to_index_cb ==
    /\ phase = "running" /\ op = "workdir_to_index" /\ error = GIT_SUCCESS
    /\ Top.kind = "wwalk" /\ Top.todo # <<>>
    /\ LET wd == Head(Top.todo)
           k == DrainCount(index, index_pos, wd.path)
       IN \E budget \in 0..(k + 2) :
          LET d == add_new_index_deltas(reverse, index, index_pos,
                                        GIT_STATUS_DELETED, wd.path, budget)
              dm == add_new_index_deltas(~reverse, index, index_pos,
                                         GIT_STATUS_DELETED, wd.path, budget)
              room == budget - k
              idx_entry == git_index_get(index, d.pos)
          IN IF d.error # GIT_SUCCESS
             THEN /\ WdStep(Advance, d.pos, "running", hashed, loaded)
                  /\ Emit(d.recs, dm.recs, d.error)
             ELSE IF idx_entry.path = NULL \/ strcmp(idx_entry.path, wd.path) > 0
             THEN \* not in the index: untracked, ignored, or a directory
                  IF ~S_ISDIR(wd.mode)
                  THEN found_new_workdir_entry(wd, d.recs, dm.recs, d.pos, room)
                  ELSE \E dir_out \in DirOutcomes(idx_entry, wd) :
                         CASE dir_out = "nomem" ->
                                /\ WdStep(Advance, d.pos, "running", hashed, loaded)
                                /\ Emit(d.recs, dm.recs, GIT_ENOMEM)
                           [] dir_out = "dotgit" ->
                                /\ WdStep(Advance, d.pos, "running", hashed, loaded)
                                /\ Emit(d.recs, dm.recs, GIT_SUCCESS)
                           [] dir_out = "crash" ->
                                /\ WdStep(Advance, d.pos, "crashed", hashed, loaded)
                                /\ Emit(d.recs, dm.recs, GIT_SUCCESS)
                           [] dir_out = "recurse" ->
                                \E scan \in {"ok", "direach", "ignore"} :
                                  /\ WdStep(Append(Advance,
                                               WalkFrame(wd.path, wd.st.children,
                                                         scan, ignores)),
                                            d.pos, "running", hashed,
                                            IF scan = "ok"
                                            THEN loaded \cup {wd.path} ELSE loaded)
                                  /\ Emit(d.recs, dm.recs,
                                          IF scan = "ok" THEN GIT_SUCCESS
                                                         ELSE GIT_EOSERR)
                           [] dir_out = "untracked" ->
                                found_new_workdir_entry(wd, d.recs, dm.recs,
                                                        d.pos, room)
             ELSE IF MODE_TYPE(wd.mode) # MODE_TYPE(idx_entry.mode)
             THEN \* blob/symlink change: a deleted and an added record
                  LET n == Min(room, 2) IN
                  \* assert(!S_ISDIR(wd_entry->mode)) stops a build with
                  \* assertions once the deleted record is in the list
                  \E asserts \in {FALSE, S_ISDIR(wd.mode) /\ room > 0} :
                  /\ WdStep(Advance, d.pos + 1,
                            IF asserts THEN "aborted" ELSE "running",
                            hashed, loaded)
                  /\ IF asserts
                     THEN Emit(d.recs \o SubSeq(SplitRecords(reverse, idx_entry, wd), 1, 1),
                               dm.recs \o SubSeq(SplitRecords(~reverse, idx_entry, wd), 1, 1),
                               GIT_SUCCESS)
                     ELSE
                     Emit(d.recs \o SubSeq(SplitRecords(reverse, idx_entry, wd), 1, n),
                          dm.recs \o SubSeq(SplitRecords(~reverse, idx_entry, wd), 1, n),
                          IF n < 2 THEN GIT_ENOMEM ELSE GIT_SUCCESS)
             ELSE IF ForcedModified(wd, idx_entry)
             THEN /\ WdStep(Advance, d.pos + 1, "running", hashed, loaded)
                  /\ workdir_modified(wd, idx_entry, Zero, d.recs, dm.recs, room)
             ELSE \* `modified` was never assigned: it is read uninitialised
                  \E garbage \in BOOLEAN :
                    IF garbage
                    THEN \E junk \in {Zero} \cup Hashes :
                           /\ WdStep(Advance, d.pos + 1, "running", hashed, loaded)
                           /\ workdir_modified(wd, idx_entry, junk,
                                               d.recs, dm.recs, room)
                    ELSE IF StatChanged(wd, idx_entry)
                    THEN \E hash_ok \in BOOLEAN :
                           IF ~hash_ok
                           THEN /\ WdStep(Advance, d.pos + 1, "running", hashed, loaded)
                                /\ Emit(d.recs, dm.recs, GIT_EOSERR)
                           ELSE /\ WdStep(Advance, d.pos + 1, "running",
                                          hashed \cup {wd.path}, loaded)
                                /\ IF wd.st.content # idx_entry.oid
                                   THEN workdir_modified(wd, idx_entry, wd.st.content,
                                                         d.recs, dm.recs, room)
                                   ELSE Emit(d.recs, dm.recs, GIT_SUCCESS)
                    ELSE /\ WdStep(Advance, d.pos + 1, "running", hashed, loaded)
                         /\ Emit(d.recs, dm.recs, GIT_SUCCESS)
    /\ UNCHANGED <<op, reverse, old_tree, new_tree, index, workdir, pfx,
                   dstatus, ignores, ret, out, list_live>>
    /\ UNCHANGED <<driverVars, auxVars>>

\* A nested diff_workdir_walk is over (or failed): its cleanup.
diff_workdir_walk_return ==
    /\ phase = "running" /\ op = "workdir_to_index"
    /\ Len(stack) > 1
    /\ Top.todo = <<>> \/ error # GIT_SUCCESS
    /\ stack' = Pop
    /\ ignores' = Top.old_ignores
    /\ loaded' = loaded \ {Top.dir}
    /\ UNCHANGED <<op, reverse, old_tree, new_tree, index, workdir, phase,
                   files, mirror, pfx, dstatus, index_pos, error, ret, out,
                   list_live, live_deltas, first_err, hashed>>
    /\ UNCHANGED <<driverVars, auxVars>>

\* The outermost walk is over: the remaining index entries are deletions;
\* then the list is returned or freed.
git_diff_workdir_to_index_return ==
    /\ phase = "running" /\ op = "workdir_to_index"
    /\ Len(stack) = 1
    /\ Top.todo = <<>> \/ error # GIT_SUCCESS
    /\ \E budget \in 0..(Len(index) - index_pos) :
         LET none == [recs |-> <<>>, pos |-> index_pos, error |-> error]
             r == IF error = GIT_SUCCESS
                  THEN add_new_index_deltas(reverse, index, index_pos,
                                            GIT_STATUS_DELETED, NULL, budget)
                  ELSE none
             m == IF error = GIT_SUCCESS
                  THEN add_new_index_deltas(~reverse, index, index_pos,
                                            GIT_STATUS_DELETED, NULL, budget)
                  ELSE none
         IN /\ index_pos' = r.pos
            /\ files' = files \o r.recs
            /\ mirror' = mirror \o m.recs
            /\ error' = r.error
            /\ first_err' = IF first_err = GIT_SUCCESS THEN r.error ELSE first_err
            /\ Finish(r.error)
            /\ live_deltas' = IF EntryReturn(r.error).freed
                              THEN 0 ELSE live_deltas + Len(r.recs)
    /\ ignores' = Top.old_ignores
    /\ loaded' = loaded \ {Top.dir}
    /\ UNCHANGED <<op, reverse, old_tree, new_tree, index, workdir, dstatus,
                   hashed>>
    /\ UNCHANGED <<driverVars, auxVars>>

\* ------------------------------------------------------------ diff driver

\* Text is a sequence of one-character strings.
Digits == <<"0", "1", "2", "3", "4", "5", "6", "7", "8", "9">>

isdigit(c) == \E i \in 1..10 : Digits[i] = c

DigitValue(c) == (CHOOSE i \in 1..10 : Digits[i] = c) - 1

RECURSIVE SkipNonDigits(_)
SkipNonDigits(str) ==
    IF str = <<>> \/ isdigit(Head(str)) THEN str ELSE SkipNonDigits(Tail(str))

RECURSIVE ParseDigits(_, _, _)
ParseDigits(str, v, digits) ==
    IF str # <<>> /\ isdigit(Head(str))
    THEN ParseDigits(Tail(str), (v * 10) + DigitValue(Head(str)), digits + 1)
    ELSE [str |-> str, value |-> v, digits |-> digits]

\* The next run of digits of str: where the scan stops, the number, and
\* GIT_ENOTFOUND when there was no digit.
read_next_int(str) ==
    LET r == ParseDigits(SkipNonDigits(str), 0, 0)
    IN [str |-> r.str, value |-> r.value,
        error |-> IF r.digits > 0 THEN GIT_SUCCESS ELSE GIT_ENOTFOUND]

NextIs(str, c) == str # <<>> /\ Head(str) = c

\* A parse that reads a count after each start, comma or not.
ParseRange_counts_always_read(header) ==
    LET a == read_next_int(header)
        b == read_next_int(a.str)
        c == read_next_int(b.str)
        d == read_next_int(c.str)
    IN [old_start |-> a.value, old_lines |-> b.value,
        new_start |-> c.value, new_lines |-> d.value,
        error |-> IF a.error = GIT_SUCCESS /\ c.error = GIT_SUCCESS
                  THEN GIT_SUCCESS ELSE GIT_ENOTFOUND]

\* The range diff_output_cb reads from a hunk header, with the status of
\* the parse.
ParseRange(header) ==
    LET a == read_next_int(header)
        b == IF a.error = GIT_SUCCESS /\ NextIs(a.str, ",")
             THEN read_next_int(a.str)
             ELSE [str |-> a.str, value |-> 0, error |-> a.error]
        c == IF b.error = GIT_SUCCESS
             THEN read_next_int(b.str)
             ELSE [str |-> b.str, value |-> -1, error |-> b.error]
        d == IF c.error = GIT_SUCCESS /\ NextIs(c.str, ",")
             THEN read_next_int(c.str)
             ELSE [str |-> c.str, value |-> 0, error |-> c.error]
    IN [old_start |-> IF a.error = GIT_SUCCESS THEN a.value ELSE -1,
        old_lines |-> b.value,
        new_start |-> c.value,
        new_lines |-> d.value,
        error |-> d.error]

GIT_DIFF_LINE_CONTEXT == " "
GIT_DIFF_LINE_ADDITION == "+"
GIT_DIFF_LINE_DELETION == "-"
GIT_DIFF_LINE_ADD_EOFNL == "add_eofnl"
GIT_DIFF_LINE_DEL_EOFNL == "del_eofnl"

LineOrigin(buf) ==
    IF NextIs(buf, "+") THEN GIT_DIFF_LINE_ADDITION
    ELSE IF NextIs(buf, "-") THEN GIT_DIFF_LINE_DELETION
    ELSE GIT_DIFF_LINE_CONTEXT

\* What the backend hands to its output function: len buffers.
Emission(len, first, payload, marker) ==
    [len |-> len, bufs |-> <<first, payload, marker>>]

FullHeader ==
    <<"@", "@", " ", "-", "1", "0", ",", "3", " ", "+", "1", "2", ",", "5",
      " ", "@", "@">>
ShortHeader == <<"@", "@", " ", "-", "0", " ", "+", "1", " ", "@", "@">>
BareHeader == <<"@", "@">>
NoNewlineMarker == <<"\\", " ", "N", "o", " ", "n", "e", "w", "l", "i", "n", "e">>

Emissions ==
    { Emission(1, h, <<>>, <<>>) :
        h \in {FullHeader, ShortHeader, BareHeader, NoNewlineMarker} }
    \cup { Emission(2, <<o>>, <<"x">>, <<>>) : o \in {"+", " "} }
    \cup { Emission(3, <<o>>, <<"x">>, NoNewlineMarker) : o \in {"+", "-"} }

\* The statuses a callback of the caller may return.
CallbackReturns == {GIT_SUCCESS, GIT_EOSERR}

\* One callback invocation: which callback, for which record, what it was
\* given, what it returned.
Invocation(cb, idx, arg, r) == [cb |-> cb, index |-> idx, arg |-> arg, ret |-> r]

\* diff_output_cb on one emission for record idx, the caller's callbacks
\* answering hunk_ret, line_ret and eofnl_ret: the callbacks invoked and the
\* status handed back to the backend.
diff_output_cb(cbs, idx, e, hunk_ret, line_ret, eofnl_ret) ==
    IF e.len = 1 /\ cbs.hunk_cb
    THEN IF NextIs(e.bufs[1], "@")
         THEN LET range == ParseRange(e.bufs[1])
              IN IF range.error = GIT_SUCCESS
                    /\ range.old_start >= 0 /\ range.new_start >= 0
                 THEN [calls |-> <<Invocation("hunk_cb", idx,
                                     [old_start |-> range.old_start,
                                      old_lines |-> range.old_lines,
                                      new_start |-> range.new_start,
                                      new_lines |-> range.new_lines,
                                      header |-> e.bufs[1]], hunk_ret)>>,
                       err |-> hunk_ret]
                 ELSE [calls |-> <<>>, err |-> range.error]
         ELSE [calls |-> <<>>, err |-> GIT_SUCCESS]
    ELSE IF (e.len = 2 \/ e.len = 3) /\ cbs.line_cb
    THEN LET origin == LineOrigin(e.bufs[1])
             first == Invocation("line_cb", idx,
                                 [origin |-> origin, content |-> e.bufs[2],
                                  tuple |-> e],
                                 line_ret)
         IN IF line_ret = GIT_SUCCESS /\ e.len = 3
            THEN [calls |-> <<first,
                              Invocation("line_cb", idx,
                                 [origin |-> IF origin = GIT_DIFF_LINE_ADDITION
                                             THEN GIT_DIFF_LINE_ADD_EOFNL
                                             ELSE GIT_DIFF_LINE_DEL_EOFNL,
                                  content |-> e.bufs[3], tuple |-> e],
                                 eofnl_ret)>>,
                  err |-> eofnl_ret]
            ELSE [calls |-> <<first>>, err |-> line_ret]
    ELSE [calls |-> <<>>, err |-> GIT_SUCCESS]

\* The bits of a float's significand.
FLT_MANT_DIG == 24

RECURSIVE Ulp(_)
\* The distance between neighbouring floats at n.
Ulp(n) == IF n < 2^FLT_MANT_DIG THEN 1 ELSE 2 * Ulp(n \div 2)

\* (float)n for an unsigned n: the nearest float, a tie going to the even
\* significand.
float_of(n) ==
    LET q == Ulp(n)
        down == n - (n % q)
    IN IF 2 * (n % q) < q THEN down
       ELSE IF 2 * (n % q) > q THEN down + q
       ELSE IF (down \div q) % 2 = 0 THEN down ELSE down + q

\* (float)info.index / diff->files.length, kept as the quotient of the two
\* converted operands: the division rounds it to 1.0 exactly when they are
\* equal, and to a float below 1.0 when num < den.
Progress(idx, length) == [num |-> float_of(idx), den |-> float_of(length)]

\* A test that skips binary records only.
SkipsDiff_binary_only(binary, old_blob, new_blob) == binary

\* The two `continue` tests before xdl_diff.
SkipsDiff(binary, old_blob, new_blob) ==
    binary \/ (old_blob = "NULL" /\ new_blob = "NULL")

\* The record of a list as the driver sees it: a new record has no blob
\* loaded and is not binary.
DriverDelta(status, old_oid, new_oid) ==
    [status |-> status, old_oid |-> old_oid, new_oid |-> new_oid,
     old_blob |-> "NULL", new_blob |-> "NULL", binary |-> FALSE]

\* The kinds of record the enumerators build.
DriverDeltas ==
    { DriverDelta(GIT_STATUS_ADDED, Zero, 1),
      DriverDelta(GIT_STATUS_DELETED, 1, Zero),
      DriverDelta(GIT_STATUS_MODIFIED, 1, 2),
      DriverDelta(GIT_STATUS_MODIFIED, 1, Zero),
      DriverDelta(GIT_STATUS_UNTRACKED, Zero, Zero) }

DriverLists ==
    UNION { [1..n -> DriverDeltas] : n \in 0..MaxFiles }

DriverInit ==
    /\ fe_phase = "idle" /\ fe_list = <<>>
    /\ fe_cbs = [file_cb |-> FALSE, hunk_cb |-> FALSE, line_cb |-> FALSE]
    /\ fe_force_text = FALSE /\ info_index = 0 /\ fe_error = GIT_SUCCESS
    /\ fe_emitted = 0 /\ fe_log = <<>> /\ fe_ret = "none"

\* git_diff_foreach is called: everything up to the loop.
git_diff_foreach ==
    /\ fe_phase = "idle"
    /\ \E list \in DriverLists, file_cb, hunk_cb, line_cb, force \in BOOLEAN :
         /\ fe_list' = list
         /\ fe_cbs' = [file_cb |-> file_cb, hunk_cb |-> hunk_cb, line_cb |-> line_cb]
         /\ fe_force_text' = force
    /\ fe_phase' = "loop" /\ info_index' = 0 /\ fe_error' = GIT_SUCCESS
    /\ UNCHANGED <<fe_emitted, fe_log, fe_ret>>
    /\ UNCHANGED <<enumVars, auxVars>>

\* git_diff_foreach, git_diff_print_compact or git_diff_print_patch is
\* called again on the list an earlier call has returned from: the records
\* are as that call left them.
git_diff_foreach_again ==
    /\ fe_phase = "returned"
    /\ \E file_cb, hunk_cb, line_cb \in BOOLEAN :
         fe_cbs' = [file_cb |-> file_cb, hunk_cb |-> hunk_cb, line_cb |-> line_cb]
    /\ fe_phase' = "loop" /\ info_index' = 0 /\ fe_error' = GIT_SUCCESS
    /\ fe_emitted' = 0 /\ fe_log' = <<>> /\ fe_ret' = "none"
    /\ UNCHANGED <<fe_list, fe_force_text>>
    /\ UNCHANGED <<enumVars, auxVars>>

\* git_blob_lookup of oid: nothing is stored under the zero hash.
BlobFound(oid, ok) == ok /\ oid # Zero

\* One pass of the loop body for the record at info_index, from the blob
\* lookups to the call of the backend (or the continue or break before it).
git_diff_foreach_delta ==
    /\ fe_phase = "loop" /\ info_index < Len(fe_list)
    /\ LET delta == fe_list[info_index + 1]
           want == fe_cbs.hunk_cb \/ fe_cbs.line_cb
           has_old == delta.status \in {GIT_STATUS_DELETED, GIT_STATUS_MODIFIED}
           has_new == delta.status \in {GIT_STATUS_ADDED, GIT_STATUS_MODIFIED}
       IN \E old_ok, new_ok \in BOOLEAN, deref \in {"crash", "garbage"},
             value \in {"true", "false", "unspecified", "error"},
             file_ret \in CallbackReturns, asserts \in BOOLEAN :
          LET old_blob == IF ~want THEN delta.old_blob
                          ELSE IF ~has_old THEN "NULL"
                          ELSE IF BlobFound(delta.old_oid, old_ok) THEN "loaded"
                          ELSE delta.old_blob
              new_blob == IF ~want THEN delta.new_blob
                          ELSE IF ~has_new THEN "NULL"
                          ELSE IF BlobFound(delta.new_oid, new_ok) THEN "loaded"
                          ELSE delta.new_blob
              err_old == IF want /\ has_old
                         THEN (IF BlobFound(delta.old_oid, old_ok)
                               THEN GIT_SUCCESS ELSE GIT_ENOTFOUND)
                         ELSE fe_error
              err_map == IF want /\ has_new
                         THEN (IF BlobFound(delta.new_oid, new_ok)
                               THEN GIT_SUCCESS ELSE GIT_ENOTFOUND)
                         ELSE err_old
              \* git_blob_rawcontent is handed a NULL blob
              null_read == want /\ ( (has_old /\ old_blob = "NULL")
                                     \/ (has_new /\ new_blob = "NULL") )
              binary == IF fe_force_text THEN FALSE ELSE value = "false"
              err_bin == IF fe_force_text THEN err_map
                         ELSE IF value = "error" THEN GIT_EOSERR ELSE GIT_SUCCESS
              classified == fe_force_text \/ value # "error"
              mapped == [delta EXCEPT !.old_blob = old_blob, !.new_blob = new_blob]
              seen == [mapped EXCEPT !.binary = binary]
              called == Append(fe_log,
                               Invocation("file_cb", info_index,
                                          [progress |-> Progress(info_index, Len(fe_list)),
                                           delta |-> seen], file_ret))
          IN IF null_read /\ deref = "crash"
             THEN /\ fe_phase' = "crashed"
                  /\ fe_list' = [fe_list EXCEPT ![info_index + 1] = mapped]
                  /\ fe_error' = err_map
                  /\ UNCHANGED <<info_index, fe_log, fe_ret>>
             ELSE IF ~classified
             THEN \* break: set_file_is_binary failed
                  /\ fe_phase' = "returned" /\ fe_ret' = err_bin
                  /\ fe_list' = [fe_list EXCEPT ![info_index + 1] = mapped]
                  /\ fe_error' = err_bin
                  /\ UNCHANGED <<info_index, fe_log>>
             ELSE IF fe_cbs.file_cb /\ file_ret # GIT_SUCCESS
             THEN \* break: file_cb said stop
                  /\ fe_phase' = "returned" /\ fe_ret' = file_ret
                  /\ fe_list' = [fe_list EXCEPT ![info_index + 1] = seen]
                  /\ fe_error' = file_ret /\ fe_log' = called
                  /\ UNCHANGED info_index
             ELSE /\ fe_list' = [fe_list EXCEPT ![info_index + 1] = seen]
                  /\ fe_error' = IF fe_cbs.file_cb THEN file_ret ELSE err_bin
                  /\ fe_log' = IF fe_cbs.file_cb THEN called ELSE fe_log
                  /\ UNCHANGED fe_ret
                  /\ IF SkipsDiff(binary, old_blob, new_blob)
                     THEN \* continue
                          /\ info_index' = info_index + 1
                          /\ fe_phase' = "loop"
                     ELSE /\ UNCHANGED info_index
                          /\ fe_phase' = IF ~want /\ asserts THEN "aborted"
                                                             ELSE "xdl_diff"
    /\ UNCHANGED <<fe_cbs, fe_force_text, fe_emitted>>
    /\ UNCHANGED <<enumVars, auxVars>>

\* The backend emits a tuple and diff_output_cb handles it; a negative
\* status from the output function ends the backend's run.
xdl_diff_emit ==
    /\ fe_phase = "xdl_diff" /\ fe_emitted < MaxEmits
    /\ \E e \in Emissions, hunk_ret, line_ret, eofnl_ret \in CallbackReturns :
         LET r == diff_output_cb(fe_cbs, info_index, e, hunk_ret, line_ret, eofnl_ret)
         IN /\ fe_log' = fe_log \o r.calls
            /\ fe_phase' = IF r.err = GIT_SUCCESS THEN "xdl_diff" ELSE "xdl_stopped"
    /\ fe_emitted' = fe_emitted + 1
    /\ UNCHANGED <<fe_list, fe_cbs, fe_force_text, info_index, fe_error, fe_ret>>
    /\ UNCHANGED <<enumVars, auxVars>>

\* xdl_diff is back: its status is dropped, the blobs are freed, the loop
\* goes on to the next record.
xdl_diff_return ==
    /\ fe_phase \in {"xdl_diff", "xdl_stopped"}
    /\ fe_list' = [fe_list EXCEPT ![info_index + 1].old_blob = "NULL",
                                  ![info_index + 1].new_blob = "NULL"]
    /\ info_index' = info_index + 1
    /\ fe_phase' = "loop"
    /\ UNCHANGED <<fe_cbs, fe_force_text, fe_error, fe_emitted, fe_log, fe_ret>>
    /\ UNCHANGED <<enumVars, auxVars>>

\* The loop has visited every record.
git_diff_foreach_return ==
    /\ fe_phase = "loop" /\ info_index = Len(fe_list)
    /\ fe_phase' = "returned" /\ fe_ret' = fe_error
    /\ UNCHANGED <<fe_list, fe_cbs, fe_force_text, info_index, fe_error,
                   fe_emitted, fe_log>>
    /\ UNCHANGED <<enumVars, auxVars>>

\* The lengths of long lists, around the first integers a float cannot hold.
ProgressTotals ==
    {1, 2, 3, 2^FLT_MANT_DIG, 2^FLT_MANT_DIG + 2, 2^FLT_MANT_DIG + 4}

ProgressInit == pg_index = 0 /\ pg_total = 0 /\ pg_progress = Progress(0, 0)

\* The progress argument of file_cb for the record at position idx of a
\* list of `length` records.
file_cb_progress ==
    /\ fe_phase = "idle"
    /\ \E length \in ProgressTotals, back \in 1..3 :
         /\ back <= length
         /\ pg_index' = length - back /\ pg_total' = length
         /\ pg_progress' = Progress(length - back, length)
    /\ fe_phase' = "progress"
    /\ UNCHANGED <<fe_list, fe_cbs, fe_force_text, info_index, fe_error,
                   fe_emitted, fe_log, fe_ret>>
    /\ UNCHANGED <<enumVars, listVars, hunkVars, blobVars>>

\* ------------------------------------------------------------ hunk headers

RECURSIVE FormatInt(_)
\* The decimal digits of n.
FormatInt(n) ==
    IF n < 10 THEN <<Digits[n + 1]>>
    ELSE FormatInt(n \div 10) \o <<Digits[(n % 10) + 1]>>

\* A count of a hunk header: written, or left out.
Count(given, value) == [given |-> given, value |-> value]

\* '-start[,count]' or '+start[,count]'.
FormatRange(sign, start, count) ==
    <<sign>> \o FormatInt(start)
    \o (IF count.given THEN <<",">> \o FormatInt(count.value) ELSE <<>>)

\* The header line the backend writes for a hunk.
HunkHeader(a, b, c, d, context) ==
    <<"@", "@", " ">> \o FormatRange("-", a, b) \o <<" ">>
    \o FormatRange("+", c, d) \o <<" ", "@", "@">> \o context

HunkNumbers == {0, 1, 10, MaxLineNo}

HunkCounts ==
    {Count(FALSE, 0)} \cup { Count(TRUE, n) : n \in HunkNumbers }

\* What may follow the second '@@': nothing, or a function line with digits.
HunkContexts == { <<>>, <<" ", "f", "7", ",", "8">> }

NoResult == [calls |-> <<>>, err |-> "none"]

HunkInit ==
    /\ hk_phase = "idle" /\ hk_input = <<>> /\ hk_header = <<>>
    /\ hk_result = NoResult

HunkCallbacks == [file_cb |-> FALSE, hunk_cb |-> TRUE, line_cb |-> FALSE]

\* The backend emits the header of a hunk as a one-buffer tuple.
emit_hunk_header ==
    /\ hk_phase = "idle"
    /\ \E a, c \in HunkNumbers, b, d \in HunkCounts, context \in HunkContexts,
          hunk_ret \in CallbackReturns :
         /\ hk_input' = <<a, b, c, d>>
         /\ hk_header' = HunkHeader(a, b, c, d, context)
         /\ hk_result' = diff_output_cb(HunkCallbacks, 0,
                             Emission(1, HunkHeader(a, b, c, d, context), <<>>, <<>>),
                             hunk_ret, GIT_SUCCESS, GIT_SUCCESS)
         /\ hk_phase' = "header"
    /\ UNCHANGED <<enumVars, driverVars, listVars, progressVars, blobVars>>

\* The backend emits a one-buffer tuple that is no hunk header.
emit_other_line ==
    /\ hk_phase = "idle"
    /\ \E text \in {NoNewlineMarker, <<"1", "@">>, <<" ", "@", "@", " ", "-", "1">>},
          hunk_ret \in CallbackReturns :
         /\ hk_input' = <<>>
         /\ hk_header' = text
         /\ hk_result' = diff_output_cb(HunkCallbacks, 0,
                             Emission(1, text, <<>>, <<>>),
                             hunk_ret, GIT_SUCCESS, GIT_SUCCESS)
         /\ hk_phase' = "other"
    /\ UNCHANGED <<enumVars, driverVars, listVars, progressVars, blobVars>>

\* ------------------------------------------------------------- blob pairs

\* What git_diff_blobs may be called with: each blob given or NULL (with
\* the hash of a given blob), options absent, plain or with
\* GIT_DIFF_REVERSE, each callback given or NULL.
BlobArgs ==
    { a \in [old_blob : {"NULL", "blob"}, old_id : Hashes,
             new_blob : {"NULL", "blob"}, new_id : Hashes,
             options : {"NULL", "plain", "reverse"},
             hunk_cb : BOOLEAN, line_cb : BOOLEAN] :
        /\ a.old_blob = "NULL" => a.old_id = 1
        /\ a.new_blob = "NULL" => a.new_id = 1 }

BlobsInit ==
    /\ bl_phase = "idle" /\ bl_log = <<>> /\ bl_emitted = 0
    /\ bl_args = [old_blob |-> "NULL", old_id |-> 1,
                  new_blob |-> "NULL", new_id |-> 1, options |-> "NULL",
                  hunk_cb |-> FALSE, line_cb |-> FALSE]
    /\ bl_delta = [status |-> "none", old_attr |-> 0, new_attr |-> 0,
                   old_oid |-> Zero, new_oid |-> Zero,
                   old_blob |-> "NULL", new_blob |-> "NULL"]

\* git_diff_blobs up to the call of the backend.  old.ptr and new.ptr are
\* a blob's content or the literal "", never NULL; git_object_id is handed
\* a NULL blob when one is missing.
git_diff_blobs ==
    /\ bl_phase = "idle"
    /\ \E args \in BlobArgs, deref \in {"crash", "garbage"},
          junk_old, junk_new \in {Zero} \cup Hashes :
         LET swap == args.options = "reverse"
             old_blob == IF swap THEN args.new_blob ELSE args.old_blob
             new_blob == IF swap THEN args.old_blob ELSE args.new_blob
             old_id == IF swap THEN args.new_id ELSE args.old_id
             new_id == IF swap THEN args.old_id ELSE args.new_id
             old_ptr == IF old_blob # "NULL" THEN "content" ELSE "literal"
             new_ptr == IF new_blob # "NULL" THEN "content" ELSE "literal"
             null_read == old_blob = "NULL" \/ new_blob = "NULL"
         IN /\ bl_args' = args
            /\ bl_delta' =
                 [status |-> IF old_ptr # "NULL"
                             THEN (IF new_ptr # "NULL" THEN GIT_STATUS_MODIFIED
                                                       ELSE GIT_STATUS_DELETED)
                             ELSE (IF new_ptr # "NULL" THEN GIT_STATUS_ADDED
                                                       ELSE GIT_STATUS_UNTRACKED),
                  old_attr |-> FILE_MODE, new_attr |-> FILE_MODE,
                  old_oid |-> IF old_blob # "NULL" THEN old_id ELSE junk_old,
                  new_oid |-> IF new_blob # "NULL" THEN new_id ELSE junk_new,
                  old_blob |-> old_blob, new_blob |-> new_blob]
            /\ old_blob # "NULL" => junk_old = Zero
            /\ new_blob # "NULL" => junk_new = Zero
            /\ bl_phase' = IF null_read /\ deref = "crash" THEN "crashed"
                                                          ELSE "xdl_diff"
    /\ UNCHANGED <<bl_log, bl_emitted>>
    /\ UNCHANGED <<enumVars, driverVars, listVars, hunkVars, progressVars>>

\* The backend emits a tuple and diff_output_cb hands it on with the
\* record; a negative status from the output function ends its run.
git_diff_blobs_emit ==
    /\ bl_phase = "xdl_diff" /\ bl_emitted < MaxEmits
    /\ \E e \in Emissions, hunk_ret, line_ret, eofnl_ret \in CallbackReturns :
         LET r == diff_output_cb([file_cb |-> FALSE, hunk_cb |-> bl_args.hunk_cb,
                                  line_cb |-> bl_args.line_cb],
                                 0, e, hunk_ret, line_ret, eofnl_ret)
         IN /\ bl_log' = bl_log \o [i \in 1..Len(r.calls) |->
                                      [cb |-> r.calls[i].cb, delta |-> bl_delta]]
            /\ bl_phase' = IF r.err = GIT_SUCCESS THEN "xdl_diff" ELSE "xdl_stopped"
    /\ bl_emitted' = bl_emitted + 1
    /\ UNCHANGED <<bl_args, bl_delta>>
    /\ UNCHANGED <<enumVars, driverVars, listVars, hunkVars, progressVars>>

\* xdl_diff is back: git_diff_blobs returns GIT_SUCCESS.
git_diff_blobs_return ==
    /\ bl_phase \in {"xdl_diff", "xdl_stopped"}
    /\ bl_phase' = "returned"
    /\ UNCHANGED <<bl_args, bl_delta, bl_log, bl_emitted>>
    /\ UNCHANGED <<enumVars, driverVars, listVars, hunkVars, progressVars>>

\* ------------------------------------------------------------ patch output

DevNull == <<"/", "d", "e", "v", "/", "n", "u", "l", "l">>

\* print_patch_file for a text record: the prefix and path printed on the
\* '---' line and on the '+++' line.
print_patch_file(src_prefix, dst_prefix, path, delta) ==
    LET no_blob == delta.old_blob = "NULL" \/ delta.new_blob = "NULL"
        oldpfx == IF no_blob THEN <<>> ELSE src_prefix
        oldpath == IF no_blob THEN DevNull ELSE path
    IN [old_line |-> <<oldpfx, oldpath>>, new_line |-> <<dst_prefix, path>>]

\* ------------------------------------------------- delta list allocation

\* A char pointer: which string it points to, and the string's text.
Pointer(id, text) == [id |-> id, text |-> text]

NullPrefix == Pointer("NULL", <<>>)
git_diff_src_prefix_default == Pointer("src_default", <<"a", "/">>)
git_diff_dst_prefix_default == Pointer("dst_default", <<"b", "/">>)

PREFIX_IS_DEFAULT(A) ==
    A = git_diff_src_prefix_default \/ A = git_diff_dst_prefix_default

\* copy_prefix: the text of the copy, '/' appended if needed.
copy_prefix(prefix) ==
    IF Len(prefix) > 0 /\ prefix[Len(prefix)] # "/"
    THEN prefix \o <<"/">> ELSE prefix

\* The prefixes a caller may put into its options.
UserPrefixes ==
    { NullPrefix, Pointer("user", <<>>), Pointer("user", <<"x">>),
      Pointer("user", <<"y", "/">>) }

\* opts == NULL, or an options record.
NoOpts == [given |-> FALSE, src_prefix |-> NullPrefix,
           dst_prefix |-> NullPrefix, reverse |-> FALSE]

DiffOptions ==
    {NoOpts} \cup [given : {TRUE}, src_prefix : UserPrefixes,
                   dst_prefix : UserPrefixes, reverse : BOOLEAN]

PrefixStrings == {"src_default", "dst_default", "src_copy", "dst_copy"}

ListInit ==
    /\ dl_phase = "idle" /\ dl_opts = NoOpts
    /\ dl_src_prefix = NullPrefix /\ dl_dst_prefix = NullPrefix
    /\ dl_allocs = {} /\ dl_frees = [s \in PrefixStrings |-> 0]

\* git_diff_list_alloc(repo, opts); fail names the allocation that fails.
git_diff_list_alloc ==
    /\ dl_phase = "idle"
    /\ \E opts \in DiffOptions, fail \in {"none", "calloc", "src", "dst", "both"} :
         LET src == IF opts.src_prefix = NullPrefix
                    THEN git_diff_src_prefix_default
                    ELSE IF fail \in {"src", "both"} THEN NullPrefix
                    ELSE Pointer("src_copy", copy_prefix(opts.src_prefix.text))
             dst == IF opts.dst_prefix = NullPrefix
                    THEN git_diff_dst_prefix_default
                    ELSE IF fail \in {"dst", "both"} THEN NullPrefix
                    ELSE Pointer("dst_copy", copy_prefix(opts.dst_prefix.text))
             copies == {src.id, dst.id} \cap {"src_copy", "dst_copy"}
         IN /\ dl_opts' = opts
            /\ IF fail = "calloc"
               THEN /\ dl_phase' = "alloc_failed"
                    /\ UNCHANGED <<dl_src_prefix, dl_dst_prefix, dl_allocs>>
               ELSE IF ~opts.given
               THEN \* the zeroed structure is returned as it is
                    /\ dl_phase' = "allocated"
                    /\ UNCHANGED <<dl_src_prefix, dl_dst_prefix, dl_allocs>>
               ELSE IF src = NullPrefix \/ dst = NullPrefix
               THEN \* git__free(diff): the structure goes, a copy made stays
                    /\ dl_phase' = "alloc_failed"
                    /\ dl_allocs' = copies
                    /\ UNCHANGED <<dl_src_prefix, dl_dst_prefix>>
               ELSE /\ dl_phase' = "allocated"
                    /\ dl_allocs' = copies
                    /\ dl_src_prefix' = IF opts.reverse THEN dst ELSE src
                    /\ dl_dst_prefix' = IF opts.reverse THEN src ELSE dst
    /\ UNCHANGED dl_frees
    /\ UNCHANGED <<enumVars, driverVars, hunkVars, progressVars, blobVars>>

\* git__free(ptr) for a prefix string; git__free(NULL) does nothing.
FreePrefix(frees, ptr) ==
    IF ptr = NullPrefix THEN frees ELSE [frees EXCEPT ![ptr.id] = @ + 1]

git_diff_list_free ==
    /\ dl_phase = "allocated"
    /\ LET after_src == IF ~PREFIX_IS_DEFAULT(dl_src_prefix)
                        THEN FreePrefix(dl_frees, dl_src_prefix) ELSE dl_frees
           after_dst == IF ~PREFIX_IS_DEFAULT(dl_dst_prefix)
                        THEN FreePrefix(after_src, dl_dst_prefix) ELSE after_src
       IN dl_frees' = after_dst
    /\ dl_src_prefix' = IF PREFIX_IS_DEFAULT(dl_src_prefix)
                        THEN dl_src_prefix ELSE NullPrefix
    /\ dl_dst_prefix' = IF PREFIX_IS_DEFAULT(dl_dst_prefix)
                        THEN dl_dst_prefix ELSE NullPrefix
    /\ dl_phase' = "freed"
    /\ UNCHANGED <<dl_opts, dl_allocs>>
    /\ UNCHANGED <<enumVars, driverVars, hunkVars, progressVars, blobVars>>

\* ------------------------------------------------------------ specification

vars == <<enumVars, driverVars, auxVars>>

Init ==
    /\ EnumInit /\ DriverInit /\ ListInit /\ HunkInit /\ ProgressInit
    /\ BlobsInit

Next ==
    \/ git_diff_tree_to_tree
    \/ tree_to_tree_diff_cb
    \/ create_diff_for_tree_entry
    \/ tree_diff_return
    \/ git_diff_tree_to_tree_return
    \/ git_diff_index_to_tree
    \/ diff_index_to_tree_cb
    \/ git_diff_index_to_tree_return
    \/ git_diff_workdir_to_index
    \/ diff_workdir_to_index_cb
    \/ diff_workdir_walk_return
    \/ git_diff_workdir_to_index_return

Spec == Init /\ [][Next]_vars

ForEachNext ==
    \/ git_diff_foreach
    \/ git_diff_foreach_delta
    \/ xdl_diff_emit
    \/ xdl_diff_return
    \/ git_diff_foreach_return
    \/ file_cb_progress

ForEachSpec == Init /\ [][ForEachNext]_vars

ListNext ==
    \/ git_diff_list_alloc
    \/ git_diff_list_free

ListSpec == Init /\ [][ListNext]_vars

\* Calls in sequence on one list.  What the backend emits is left out: the
\* driver drops the backend's status, so no callback made from it changes
\* the records or the course of the loop.
ReuseNext ==
    \/ git_diff_foreach
    \/ git_diff_foreach_again
    \/ git_diff_foreach_delta
    \/ xdl_diff_return
    \/ git_diff_foreach_return

ReuseSpec == Init /\ [][ReuseNext]_vars

BlobsNext ==
    \/ git_diff_blobs
    \/ git_diff_blobs_emit
    \/ git_diff_blobs_return

BlobsSpec == Init /\ [][BlobsNext]_vars

HunkNext ==
    \/ emit_hunk_header
    \/ emit_other_line

HunkSpec == Init /\ [][HunkNext]_vars

\* ------------------------------------------------------------------ claims

\* A list was handed to the caller by the entry point `which`.
Returned(which) == phase = "returned" /\ out = "list" /\ op = which

AnyReturned == phase = "returned" /\ out = "list"

StrictlyAscending(list) ==
    \A i \in 1..(Len(list) - 1) : strcmp(list[i].path, list[i + 1].path) < 0

\* C1: in every list an enumerator returns, record paths are strictly
\* ascending in byte-wise order.
C1_PathsStrictlyAscending == AnyReturned => StrictlyAscending(files)

\* C1, the part the tree/tree and tree/index enumerators keep.
C1_TreeListsAscending ==
    (Returned("tree_to_tree") \/ Returned("index_to_tree"))
        => StrictlyAscending(files)

\* C2: an enumeration that fails returns the first error, frees the list
\* with all its records and stores nothing in the caller's pointer; a list
\* reaches the caller only on success, with all its records alive.
C2_ErrorReleasesList ==
    phase = "returned" =>
        /\ ret = first_err
        /\ ret # GIT_SUCCESS => out = "unset" /\ ~list_live /\ live_deltas = 0
        /\ out = "list" => ret = GIT_SUCCESS /\ list_live
                           /\ live_deltas = Len(files)

\* C2's case: a call that failed after records had been appended.
C2_Witness ==
    phase = "returned" /\ ret # GIT_SUCCESS /\ Len(files) > 1 /\ out = "unset"

\* The blobs of the old tree in walk order, each with its full path.
TreeBlobs(tree) ==
    LET w == SelectSeq(git_tree_walk(tree, <<>>), LAMBDA it : IsBlobEntry(it.entry))
    IN [i \in 1..Len(w) |->
          [path |-> git_buf_joinpath(w[i].root, w[i].entry.name),
           attr |-> w[i].entry.attr, oid |-> w[i].entry.oid]]

Range(seq) == { seq[i] : i \in 1..Len(seq) }

\* The records the tree/index comparison of stream T with index I owes.
ExpectedIndexToTree(T, I) ==
    { [status |-> GIT_STATUS_ADDED, path |-> e.path, old_attr |-> 0,
       new_attr |-> e.mode, old_oid |-> Zero, new_oid |-> e.oid] :
        e \in { e \in Range(I) : \A t \in Range(T) : t.path # e.path } }
    \cup
    { [status |-> GIT_STATUS_DELETED, path |-> t.path, old_attr |-> t.attr,
       new_attr |-> 0, old_oid |-> t.oid, new_oid |-> Zero] :
        t \in { t \in Range(T) : \A e \in Range(I) : t.path # e.path } }
    \cup
    { [status |-> GIT_STATUS_MODIFIED, path |-> p[1].path,
       old_attr |-> p[1].attr, new_attr |-> p[2].mode,
       old_oid |-> p[1].oid, new_oid |-> p[2].oid] :
        p \in { p \in Range(T) \X Range(I) :
                  /\ p[1].path = p[2].path
                  /\ p[1].oid # p[2].oid \/ p[1].attr # p[2].mode } }

C4_Final ==
    Returned("index_to_tree") /\ ~reverse =>
        /\ Range(files) = ExpectedIndexToTree(TreeBlobs(old_tree), index)
        /\ Len(files) = Cardinality(Range(files))

\* A call of diff_index_to_tree_cb for a blob is about to run.
IndexCbEnabled ==
    /\ op = "index_to_tree" /\ phase = "running" /\ error = GIT_SUCCESS
    /\ stack # <<>> /\ Top.todo # <<>> /\ IsBlobEntry(Head(Top.todo).entry)

C4_CursorStep ==
    IndexCbEnabled /\ error' = GIT_SUCCESS =>
        LET path == git_buf_joinpath(Head(Top.todo).root, Head(Top.todo).entry.name)
            before == Cardinality({ i \in (index_pos + 1)..Len(index) :
                                      strcmp(index[i].path, path) < 0 })
            match == \E i \in 1..Len(index) : index[i].path = path
        IN index_pos' = index_pos + before + (IF match THEN 1 ELSE 0)

\* C4: with reverse off, diff_index_to_tree returns exactly one added
\* record per index path not in the tree, one deleted record per tree path
\* not in the index, one modified record per common path whose hash or mode
\* differ and nothing for an equal pair; a callback moves the cursor past
\* the drained entries, and one further only on a path match.
C4_IndexToTreeExact == []C4_Final /\ [][C4_CursorStep]_vars

C4_Witness ==
    /\ Returned("index_to_tree") /\ ~reverse
    /\ \E i, j, k \in 1..Len(files) :
         /\ files[i].status = GIT_STATUS_ADDED
         /\ files[j].status = GIT_STATUS_DELETED
         /\ files[k].status = GIT_STATUS_MODIFIED

\* A call of diff_workdir_to_index_cb is about to run.
WorkdirCbEnabled ==
    /\ op = "workdir_to_index" /\ phase = "running" /\ error = GIT_SUCCESS
    /\ stack # <<>> /\ Top.todo # <<>>

\* The index entry the cursor reaches once the entries before wd are drained.
EntryAfterDrain(wd) ==
    git_index_get(index, index_pos + DrainCount(index, index_pos, wd.path))

StatCacheHit(wd, e) ==
    /\ wd.mode = e.mode /\ wd.st.st_size = e.file_size
    /\ wd.st.st_ctime = e.ctime /\ wd.st.st_mtime = e.mtime
    /\ wd.st.st_dev = e.dev /\ wd.st.st_ino = e.ino
    /\ wd.st.st_uid = e.uid /\ wd.st.st_gid = e.gid

\* C5: a workdir entry whose path and whole stat tuple equal the index
\* entry's yields no record; the cursor moves past the index entry.
C5_StatCacheHitSilent ==
    [][ LET wd == Head(Top.todo)
            k == DrainCount(index, index_pos, wd.path)
        IN ( /\ WorkdirCbEnabled
             /\ EntryAfterDrain(wd).path = wd.path
             /\ StatCacheHit(wd, EntryAfterDrain(wd))
             /\ error' = GIT_SUCCESS /\ phase' = "running" )
           => Len(files') = Len(files) + k /\ index_pos' = index_pos + k + 1
      ]_vars

\* What the claim says of one callback on a matched entry of unchanged
\* type: a hash is computed only if mode and size agree and some other stat
\* field differs; a changed mode or size gives a modified record without
\* hashing, its hash on side `zero_side` all zero.
C6_Step(zero_side(_)) ==
    LET wd == Head(Top.todo)
        k == DrainCount(index, index_pos, wd.path)
        e == EntryAfterDrain(wd)
    IN /\ hashed' # hashed =>
            /\ WorkdirCbEnabled
            /\ e.path = wd.path
            /\ MODE_TYPE(wd.mode) = MODE_TYPE(e.mode)
            /\ wd.mode = e.mode /\ wd.st.st_size = e.file_size
            /\ ~StatCacheHit(wd, e)
            /\ hashed' = hashed \cup {wd.path}
       /\ ( /\ WorkdirCbEnabled /\ e.path = wd.path
            /\ MODE_TYPE(wd.mode) = MODE_TYPE(e.mode)
            /\ wd.mode # e.mode \/ wd.st.st_size # e.file_size
            /\ error' = GIT_SUCCESS )
          => /\ hashed' = hashed
             /\ Len(files') = Len(files) + k + 1
             /\ files'[Len(files')].status = GIT_STATUS_MODIFIED
             /\ zero_side(files'[Len(files')]) = Zero

\* C6 as stated: hashing only for a matched entry of equal type, mode and
\* size with some other stat field changed; a changed mode or size forces
\* a modified record whose new_hash is zero.
C6_HashOnlyOnStatHint == [][C6_Step(LAMBDA r : r.new_oid)]_vars

\* C6 amended: as stated, except that the zero hash of a forced record is
\* its new_hash with reverse off and its old_hash with reverse on.
C6_HashOnlyOnStatHintReverseAware ==
    [][C6_Step(LAMBDA r : IF reverse THEN r.old_oid ELSE r.new_oid)]_vars

\* C6's cases: one entry was hashed, another was forced modified.
C6_Witness ==
    /\ Returned("workdir_to_index") /\ hashed # {}
    /\ \E i \in 1..Len(files) :
         /\ files[i].status = GIT_STATUS_MODIFIED
         /\ files[i].new_oid = Zero /\ files[i].old_attr # files[i].new_attr

\* C7: a modified record from the tree/index or index/workdir enumerator
\* differs in hash or in mode between its two sides.
C7_ModifiedSidesDiffer ==
    (Returned("index_to_tree") \/ Returned("workdir_to_index")) =>
        \A i \in 1..Len(files) :
            files[i].status = GIT_STATUS_MODIFIED =>
                \/ files[i].old_oid # files[i].new_oid
                \/ files[i].old_attr # files[i].new_attr

\* C7, the part the tree/index enumerator keeps.
C7_IndexToTreeSidesDiffer ==
    Returned("index_to_tree") =>
        \A i \in 1..Len(files) :
            files[i].status = GIT_STATUS_MODIFIED =>
                \/ files[i].old_oid # files[i].new_oid
                \/ files[i].old_attr # files[i].new_attr

\* C8: no record of a returned list has both hashes zero.
C8_AtMostOneZeroHash ==
    AnyReturned =>
        \A i \in 1..Len(files) :
            ~(files[i].old_oid = Zero /\ files[i].new_oid = Zero)

\* C9: with or without reverse, an added record has old_mode 0 and old_hash
\* zero, a deleted record has new_mode 0 and new_hash zero.
C9_OneSidedRecords ==
    \A i \in 1..Len(files) :
        /\ files[i].status = GIT_STATUS_ADDED =>
               files[i].old_attr = 0 /\ files[i].old_oid = Zero
        /\ files[i].status = GIT_STATUS_DELETED =>
               files[i].new_attr = 0 /\ files[i].new_oid = Zero

\* C9's case: a reversed list with records of both one-sided kinds.
C9_Witness ==
    /\ AnyReturned /\ reverse /\ op # "tree_to_tree"
    /\ \E i, j \in 1..Len(files) :
         /\ files[i].status = GIT_STATUS_ADDED /\ files[i].new_oid # Zero
         /\ files[j].status = GIT_STATUS_DELETED /\ files[j].old_oid # Zero

\* The same record seen from the other side.
Invert(rec) ==
    [status |-> CASE rec.status = GIT_STATUS_ADDED -> GIT_STATUS_DELETED
                  [] rec.status = GIT_STATUS_DELETED -> GIT_STATUS_ADDED
                  [] OTHER -> rec.status,
     path |-> rec.path,
     old_attr |-> rec.new_attr, new_attr |-> rec.old_attr,
     old_oid |-> rec.new_oid, new_oid |-> rec.old_oid]

\* C10: for the tree/tree and tree/index enumerators the list built with
\* the reverse flag toggled has the same paths in the same order, each
\* record the inversion of its counterpart (added and deleted exchanged,
\* modified kept, modes and hashes swapped); inverting twice changes nothing.
C10_ReverseInverts ==
    (Returned("tree_to_tree") \/ Returned("index_to_tree")) =>
        /\ Len(mirror) = Len(files)
        /\ \A i \in 1..Len(files) :
             /\ mirror[i] = Invert(files[i])
             /\ mirror[i].path = files[i].path
             /\ Invert(mirror[i]) = files[i]
             /\ Invert(Invert(files[i])) = files[i]

\* C10's case: a reversed list with an inverted modification and an
\* inverted addition.
C10_Witness ==
    /\ Returned("tree_to_tree") /\ reverse
    /\ \E i, j \in 1..Len(files) :
         /\ files[i].status = GIT_STATUS_MODIFIED
         /\ files[i].old_oid # files[i].new_oid
         /\ files[j].status = GIT_STATUS_DELETED
         /\ mirror[j].status = GIT_STATUS_ADDED

\* The callbacks that did not return success, by position in the log.
Refusals == { i \in 1..Len(fe_log) : fe_log[i].ret # GIT_SUCCESS }

\* C3: once a callback of for_each returns a non-success status no other
\* callback is invoked, and for_each returns that status.
C3_CallbackFailureStops ==
    \A i \in Refusals :
        /\ i = Len(fe_log)
        /\ fe_phase = "returned" => fe_ret = fe_log[i].ret

\* C3, the part git_diff_foreach keeps: a refusal by file_cb.
C3_FileRefusalStops ==
    \A i \in Refusals :
        fe_log[i].cb = "file_cb" =>
            /\ i = Len(fe_log)
            /\ fe_phase = "returned" /\ fe_ret = fe_log[i].ret

\* The allocation and freeing of the list is over.
ListDone == dl_phase \in {"freed", "alloc_failed"}

\* C11: on every allocate/free path each prefix copy is freed exactly once
\* and the default prefix strings are never freed.
C11_PrefixesFreedOnce ==
    /\ \A s \in {"src_default", "dst_default"} : dl_frees[s] = 0
    /\ \A s \in {"src_copy", "dst_copy"} :
         /\ dl_frees[s] <= (IF s \in dl_allocs THEN 1 ELSE 0)
         /\ ListDone /\ s \in dl_allocs => dl_frees[s] = 1

\* C11, the part that holds: a list that was allocated and then freed.
C11_FreedListBalanced ==
    dl_phase = "freed" =>
        /\ \A s \in {"src_default", "dst_default"} : dl_frees[s] = 0
        /\ \A s \in {"src_copy", "dst_copy"} :
             dl_frees[s] = (IF s \in dl_allocs THEN 1 ELSE 0)

\* C12: a list allocated with no options record, or with options whose two
\* prefixes are unset, has source prefix "a/" and destination prefix "b/",
\* exchanged once when reverse is set.
C12_DefaultPrefixes ==
    ( /\ dl_phase = "allocated"
      /\ dl_opts.src_prefix = NullPrefix /\ dl_opts.dst_prefix = NullPrefix )
    => /\ dl_src_prefix.text = (IF dl_opts.reverse THEN <<"b", "/">> ELSE <<"a", "/">>)
       /\ dl_dst_prefix.text = (IF dl_opts.reverse THEN <<"a", "/">> ELSE <<"b", "/">>)
       /\ dl_src_prefix # NullPrefix /\ dl_dst_prefix # NullPrefix

\* C12, the part that holds: an options record with both prefixes unset.
C12_DefaultPrefixesWithOptions ==
    ( /\ dl_phase = "allocated" /\ dl_opts.given
      /\ dl_opts.src_prefix = NullPrefix /\ dl_opts.dst_prefix = NullPrefix )
    => /\ dl_src_prefix = (IF dl_opts.reverse THEN git_diff_dst_prefix_default
                                              ELSE git_diff_src_prefix_default)
       /\ dl_dst_prefix = (IF dl_opts.reverse THEN git_diff_src_prefix_default
                                              ELSE git_diff_dst_prefix_default)

\* The callbacks git_diff_print_patch hands to git_diff_foreach.
PrintPatchCallbacks == fe_cbs.file_cb /\ fe_cbs.hunk_cb /\ fe_cbs.line_cb

\* C13: in print_patch the '---' line names the old side and the '+++' line
\* the new side, an absent side being /dev/null with an empty prefix on its
\* own line only.
C13_PatchHeaderSides ==
    PrintPatchCallbacks =>
        \A i \in 1..Len(fe_log) :
            fe_log[i].cb = "file_cb" /\ ~fe_log[i].arg.delta.binary =>
                LET delta == fe_log[i].arg.delta
                    src == git_diff_src_prefix_default.text
                    dst == git_diff_dst_prefix_default.text
                    path == <<"f">>
                    hdr == print_patch_file(src, dst, path, delta)
                IN /\ ( delta.status = GIT_STATUS_ADDED
                        /\ delta.new_blob = "loaded" ) =>
                          /\ hdr.old_line = <<<<>>, DevNull>>
                          /\ hdr.new_line = <<dst, path>>
                   /\ ( delta.status = GIT_STATUS_DELETED
                        /\ delta.old_blob = "loaded" ) =>
                          /\ hdr.old_line = <<src, path>>
                          /\ hdr.new_line = <<<<>>, DevNull>>

\* C13, the part that holds: the header of an added record.
C13_AddedHeader ==
    PrintPatchCallbacks =>
        \A i \in 1..Len(fe_log) :
            LET delta == fe_log[i].arg.delta IN
            ( /\ fe_log[i].cb = "file_cb" /\ ~delta.binary
              /\ delta.status = GIT_STATUS_ADDED /\ delta.new_blob = "loaded" ) =>
                print_patch_file(<<"a", "/">>, <<"b", "/">>, <<"f">>, delta)
                    = [old_line |-> <<<<>>, DevNull>>,
                       new_line |-> <<<<"b", "/">>, <<"f">>>>]

OrdinaryOrigins ==
    {GIT_DIFF_LINE_CONTEXT, GIT_DIFF_LINE_ADDITION, GIT_DIFF_LINE_DELETION}

EofnlOrigins == {GIT_DIFF_LINE_ADD_EOFNL, GIT_DIFF_LINE_DEL_EOFNL}

\* The ordinary line events made for three-buffer tuples, by log position.
ThreeBufferLines ==
    { i \in 1..Len(fe_log) :
        /\ fe_log[i].cb = "line_cb"
        /\ fe_log[i].arg.origin \in OrdinaryOrigins
        /\ fe_log[i].arg.tuple.len = 3 }

FollowedByEofnl(i) ==
    /\ i < Len(fe_log)
    /\ fe_log[i + 1].cb = "line_cb"
    /\ fe_log[i + 1].arg.origin \in EofnlOrigins

\* The order of the two events of a three-buffer tuple: the line event with
\* the origin of buffer[0] and the payload buffer[1]; then, only after its
\* success, one EOF-newline event with buffer[2].
EofnlOrder(i) ==
    LET e == fe_log[i].arg.tuple IN
    /\ fe_log[i].arg.origin = LineOrigin(e.bufs[1])
    /\ fe_log[i].arg.content = e.bufs[2]
    /\ fe_log[i].ret = GIT_SUCCESS <=> FollowedByEofnl(i)
    /\ FollowedByEofnl(i) =>
         /\ fe_log[i + 1].index = fe_log[i].index
         /\ fe_log[i + 1].arg.content = e.bufs[3]
         /\ fe_log[i + 1].arg.tuple = e

\* C14: a three-buffer tuple gives the ordinary line event and then, only
\* if that call succeeded, one EOF-newline event with buffer[2]; for a
\* tuple of origin '+' (the new side lost the final newline) that event
\* has origin del_eof_nl.
C14_EofNewlineEvent ==
    \A i \in ThreeBufferLines :
        /\ EofnlOrder(i)
        /\ ( FollowedByEofnl(i)
             /\ fe_log[i].arg.origin = GIT_DIFF_LINE_ADDITION ) =>
               fe_log[i + 1].arg.origin = GIT_DIFF_LINE_DEL_EOFNL

\* C14, the part that holds: the order and payloads of the two events.
C14_EofNewlineOrder == \A i \in ThreeBufferLines : EofnlOrder(i)

\* C15: a one-buffer tuple '@@ -a[,b] +c[,d] @@ ...' calls hunk_cb exactly
\* once with the range (a, b, c, d), a count left out being 0, and the raw
\* header; a one-buffer tuple that does not start with '@' calls nothing and
\* is no error.
C15_HunkHeaderParsed ==
    /\ hk_phase = "header" =>
         /\ Len(hk_result.calls) = 1
         /\ hk_result.calls[1].cb = "hunk_cb"
         /\ hk_result.calls[1].arg =
              [old_start |-> hk_input[1],
               old_lines |-> IF hk_input[2].given THEN hk_input[2].value ELSE 0,
               new_start |-> hk_input[3],
               new_lines |-> IF hk_input[4].given THEN hk_input[4].value ELSE 0,
               header |-> hk_header]
         /\ hk_result.err = hk_result.calls[1].ret
    /\ hk_phase = "other" =>
         hk_result.calls = <<>> /\ hk_result.err = GIT_SUCCESS

\* C15's case: a header with one count left out, the other written, a
\* multi-digit start and digits after the second '@@'.
C15_Witness ==
    /\ hk_phase = "header"
    /\ ~hk_input[2].given /\ hk_input[4].given /\ hk_input[4].value = 10
    /\ hk_input[1] = MaxLineNo
    /\ Len(hk_header) > 20
    /\ Len(hk_result.calls) = 1

\* The workdir entry about to be handed to diff_workdir_to_index_cb is a
\* directory with no index entry at or under its path and no repository
\* marker in it.
UnmatchedDirectory(wd) ==
    LET e == EntryAfterDrain(wd)
    IN /\ S_ISDIR(wd.mode) /\ ~wd.st.dotgit
       /\ \/ e.path = NULL
          \/ strcmp(e.path, wd.path) > 0 /\ ~HasPrefix(e.path, wd.path)

\* C16: a workdir directory with no matching index entry, no repository
\* marker and no index entry under it (the index may be empty or the cursor
\* past its end) gives exactly one untracked or ignored record named by
\* the directory path with a trailing '/', is not entered, and the
\* enumeration goes on.
C16_UntrackedDirectory ==
    [][ LET wd == Head(Top.todo)
            k == DrainCount(index, index_pos, wd.path)
        IN (WorkdirCbEnabled /\ UnmatchedDirectory(wd))
           => /\ phase' = "running"
              /\ Len(stack') = Len(stack)
              /\ error' = GIT_SUCCESS =>
                   /\ Len(files') = Len(files) + k + 1
                   /\ files'[Len(files')].status
                        \in {GIT_STATUS_UNTRACKED, GIT_STATUS_IGNORED}
                   /\ files'[Len(files')].path = wd.path
                   /\ wd.path[Len(wd.path)] = "/"
      ]_vars

\* C20: with reverse set, a workdir entry without an index match is still
\* reported untracked or ignored, as without reverse: each record that is
\* untracked or ignored in one direction has the same status in the other.
C20_ReverseKeepsUntracked ==
    op = "workdir_to_index" =>
      \A i \in 1..Len(files) :
        ( \/ files[i].status \in {GIT_STATUS_UNTRACKED, GIT_STATUS_IGNORED}
          \/ mirror[i].status \in {GIT_STATUS_UNTRACKED, GIT_STATUS_IGNORED} )
        => files[i].status = mirror[i].status

\* C17: whenever git_diff_foreach has returned, whatever the way out, no
\* record of the list holds a loaded blob.
C17_NoBlobLeftLoaded ==
    fe_phase = "returned" =>
      \A i \in 1..Len(fe_list) :
        fe_list[i].old_blob = "NULL" /\ fe_list[i].new_blob = "NULL"

\* C18: for a modified record whose new hash is zero, visited with a hunk
\* or line callback, the driver gets the new side's bytes: it does not
\* fail on the record, and the backend is run with the new side loaded.
C18_ZeroHashReRead ==
    [][ ( /\ fe_phase = "loop" /\ info_index < Len(fe_list)
          /\ fe_cbs.hunk_cb \/ fe_cbs.line_cb
          /\ fe_list[info_index + 1].status = GIT_STATUS_MODIFIED
          /\ fe_list[info_index + 1].new_oid = Zero )
        => /\ fe_phase' # "crashed"
           /\ fe_phase' = "xdl_diff" =>
                fe_list'[info_index + 1].new_blob = "loaded"
      ]_vars

FileCalls == { j \in 1..Len(fe_log) : fe_log[j].cb = "file_cb" }

DiffCalls == { j \in 1..Len(fe_log) : fe_log[j].cb \in {"hunk_cb", "line_cb"} }

\* progress lies in [0, 1).
ProgressBelowOne(p, total) == 0 <= p.num /\ p.num < p.den

\* progress lies in [0, 1], and below 1 while every position of the list
\* is a float.
ProgressRounded(p, total) ==
    /\ 0 <= p.num /\ p.num <= p.den
    /\ total <= 2^FLT_MANT_DIG => p.num < p.den

\* The calls made so far: file_cb at most once per record and in list
\* order, with the progress of its position; the hunk and line events of a
\* record after its file_cb and before the next record's; none for a
\* binary record.
EventsInOrder(InRange(_, _)) ==
    /\ \A j, k \in FileCalls : j < k => fe_log[j].index < fe_log[k].index
    /\ \A j \in FileCalls :
         /\ fe_log[j].index < Len(fe_list)
         /\ fe_log[j].arg.progress = Progress(fe_log[j].index, Len(fe_list))
         /\ InRange(fe_log[j].arg.progress, Len(fe_list))
    /\ \A j, k \in 1..Len(fe_log) : j < k => fe_log[j].index <= fe_log[k].index
    /\ \A j \in DiffCalls :
         /\ fe_cbs.file_cb =>
              \E k \in FileCalls : k < j /\ fe_log[k].index = fe_log[j].index
         /\ ~fe_list[fe_log[j].index + 1].binary
    /\ fe_phase = "progress" => InRange(pg_progress, pg_total)

\* Hunk and line events are delivered for the record at info_index only,
\* which is not binary and has a side loaded.
EventsNeedBlob ==
    (fe_log' # fe_log /\ Len(fe_log') \in DiffCalls')
    => /\ \A j \in (Len(fe_log) + 1)..Len(fe_log') : fe_log'[j].index = info_index
       /\ ~fe_list[info_index + 1].binary
       /\ \/ fe_list[info_index + 1].old_blob = "loaded"
          \/ fe_list[info_index + 1].new_blob = "loaded"

\* C19: file_cb is called at most once per record, in list order, with
\* progress = index/total in [0, 1); the hunk and line events of a record
\* come after its file_cb and before the next record's; a binary record
\* and a record with no side loaded get no hunk or line event.
C19_FileEventsInOrder ==
    [][EventsInOrder(ProgressBelowOne)' /\ EventsNeedBlob]_vars

\* C19 with the progress as the float division gives it: in [0, 1], and
\* below 1 for lists of up to 2^24 records.
C19_FileEventsInOrderFloat ==
    [][EventsInOrder(ProgressRounded)' /\ EventsNeedBlob]_vars

\* C19's case: a list of two records, the first with a line event between
\* the two file_cb calls, the second binary and without events.
C19_Witness ==
    /\ fe_phase = "returned" /\ Len(fe_list) = 2 /\ fe_list[2].binary
    /\ Len(fe_log) = 3
    /\ fe_log[1].cb = "file_cb" /\ fe_log[1].index = 0
    /\ fe_log[2].cb = "line_cb" /\ fe_log[2].index = 0
    /\ fe_log[3].cb = "file_cb" /\ fe_log[3].index = 1

\* The directories whose walks are in progress.
WalkedDirs == { stack[i].dir : i \in 1..Len(stack) }

\* C21: while the entries of a directory are processed by the workdir
\* walk, the ignore lookup is made against the rules loaded for that
\* directory; when the walk of the directory is over, with or without an
\* error, the rules in effect are the caller's again and the directory's
\* rules are released.
C21_IgnoresScoped ==
    /\ WorkdirCbEnabled => ignores = Top.dir
    /\ op = "workdir_to_index" =>
         /\ loaded \subseteq WalkedDirs
         /\ phase = "returned" => ignores = NULL /\ loaded = {}

\* What holds of C21: the rules loaded for a directory are released when
\* its walk is over and info->ignores is the caller's again.
C21_IgnoresRestored ==
    op = "workdir_to_index" =>
      /\ loaded \subseteq WalkedDirs
      /\ phase = "returned" => ignores = NULL /\ loaded = {}

RECURSIVE Leaves(_, _)
\* The blobs anywhere under a tree, each with its path below dir.
Leaves(tree, dir) ==
    UNION { IF S_ISDIR(e.attr)
            THEN Leaves(e.tree, dir \o e.name \o <<"/">>)
            ELSE { [path |-> dir \o e.name, attr |-> e.attr, oid |-> e.oid] } :
            e \in Range(tree) }

\* The directories of a that b has no directory for.
DirsOnlyIn(a, b) ==
    { e \in Range(a) :
        S_ISDIR(e.attr)
        /\ ~ \E f \in Range(b) : f.name = e.name /\ S_ISDIR(f.attr) }

RECURSIVE OneSidedDirs(_, _, _)
\* The directories present on exactly one side of a pair of trees, found
\* under directory dir: the tuples with a directory on one side.
OneSidedDirs(a, b, dir) ==
    { [path |-> dir \o e.name \o <<"/">>, side |-> "old", tree |-> e.tree] :
        e \in DirsOnlyIn(a, b) }
    \cup
    { [path |-> dir \o e.name \o <<"/">>, side |-> "new", tree |-> e.tree] :
        e \in DirsOnlyIn(b, a) }
    \cup
    UNION { OneSidedDirs(p[1].tree, p[2].tree, dir \o p[1].name \o <<"/">>) :
            p \in { q \in Range(a) \X Range(b) :
                      /\ q[1].name = q[2].name
                      /\ S_ISDIR(q[1].attr) /\ S_ISDIR(q[2].attr) } }

\* The record owed for a leaf of a directory on `side`.
LeafRecord(leaf, side, rev) ==
    IF (side = "new") # rev
    THEN [status |-> GIT_STATUS_ADDED, path |-> leaf.path, old_attr |-> 0,
          new_attr |-> leaf.attr, old_oid |-> Zero, new_oid |-> leaf.oid]
    ELSE [status |-> GIT_STATUS_DELETED, path |-> leaf.path,
          old_attr |-> leaf.attr, new_attr |-> 0,
          old_oid |-> leaf.oid, new_oid |-> Zero]

\* The positions of the records whose path lies under dir.
RecordsUnder(dir) == { i \in 1..Len(files) : HasPrefix(files[i].path, dir) }

\* C22: in the tree/tree comparison a directory on exactly one side gives
\* one record for every blob anywhere under it and none for a directory;
\* each is added for a directory of the new side and deleted for one of
\* the old side (exchanged under reverse), carries the leaf's mode and
\* hash on that side and the full path of the leaf; the prefix is back to
\* what it was once the tuple is done, so that the records that follow
\* are named by their own paths.
C22_OneSidedDirectoryLeaves ==
    Returned("tree_to_tree") =>
      /\ \A d \in OneSidedDirs(old_tree, new_tree, <<>>) :
           /\ Cardinality(RecordsUnder(d.path))
                = Cardinality(Leaves(d.tree, d.path))
           /\ { files[i] : i \in RecordsUnder(d.path) }
                = { LeafRecord(l, d.side, reverse) : l \in Leaves(d.tree, d.path) }
      /\ \A i \in 1..Len(files) :
           /\ ~S_ISDIR(files[i].old_attr) /\ ~S_ISDIR(files[i].new_attr)
           /\ \E l \in Leaves(old_tree, <<>>) \cup Leaves(new_tree, <<>>) :
                l.path = files[i].path

\* C22's case: a directory with a nested directory on the new side only,
\* followed by a changed blob, all reported.
C22_Witness ==
    /\ Returned("tree_to_tree") /\ ~reverse
    /\ \E d \in OneSidedDirs(old_tree, new_tree, <<>>) :
         /\ d.side = "new"
         /\ Cardinality(Leaves(d.tree, d.path)) = 2
         /\ \E l \in Leaves(d.tree, d.path) : Len(l.path) = 5
    /\ Len(files) = 3
    /\ files[3].path = <<"b">>

\* C23: every record of a list the index/workdir comparison returns is
\* named by the path of the entry it describes; a modified record has the
\* path of the matched index entry, and so have both halves of a
\* type-change split.
C23_RecordPathsAreEntryPaths ==
    Returned("workdir_to_index") =>
      \A i \in 1..Len(files) :
        /\ files[i].path # <<>>
        /\ files[i].status \in {GIT_STATUS_MODIFIED, GIT_STATUS_DELETED} =>
             \E j \in 1..Len(index) : index[j].path = files[i].path

\* What holds of C23: the records that are not modified carry the path of
\* their entry, a deleted one that of an index entry.
C23_OneSidedPathsAreEntryPaths ==
    Returned("workdir_to_index") /\ ~reverse =>
      \A i \in 1..Len(files) :
        files[i].status # GIT_STATUS_MODIFIED =>
          /\ files[i].path # <<>>
          /\ files[i].status = GIT_STATUS_DELETED =>
               \E j \in 1..Len(index) : index[j].path = files[i].path

\* The enumerators that walk the index with a cursor.
CursorEnumerators == {"index_to_tree", "workdir_to_index"}

\* The record a drained index entry is reported by: added in the
\* tree/index comparison, deleted in the index/workdir one, exchanged
\* under reverse.
DrainedAs(e) ==
    IF (op = "index_to_tree") # reverse
    THEN [status |-> GIT_STATUS_ADDED, path |-> e.path, old_attr |-> 0,
          new_attr |-> e.mode, old_oid |-> Zero, new_oid |-> e.oid]
    ELSE [status |-> GIT_STATUS_DELETED, path |-> e.path, old_attr |-> e.mode,
          new_attr |-> 0, old_oid |-> e.oid, new_oid |-> Zero]

\* The step appends, first of all, the records of the next k index entries.
Drains(k) ==
    \A t \in 1..k :
      /\ Len(files') >= Len(files) + t
      /\ files'[Len(files) + t] = DrainedAs(index[index_pos + t])

\* The path of the tree or workdir entry the next callback is handed.
CurrentPath ==
    IF op = "index_to_tree"
    THEN git_buf_joinpath(Head(Top.todo).root, Head(Top.todo).entry.name)
    ELSE Head(Top.todo).path

\* The matched index entry e and the workdir entry differ in type: the
\* pair is reported as a deletion and an addition.
TypeChanged(e) ==
    op = "workdir_to_index" /\ MODE_TYPE(Head(Top.todo).mode) # MODE_TYPE(e.mode)

C24_CursorBounds ==
    op \in CursorEnumerators =>
      /\ index_pos <= Len(index)
      /\ phase = "returned" /\ out = "list" => index_pos = Len(index)

C24_CursorStep ==
    (op \in CursorEnumerators /\ phase = "running") =>
      /\ index_pos <= index_pos' /\ index_pos' <= Len(index)
      /\ (IndexCbEnabled \/ WorkdirCbEnabled) =>
           LET before == Cardinality({ i \in (index_pos + 1)..Len(index) :
                                         strcmp(index[i].path, CurrentPath) < 0 })
               match == \E i \in 1..Len(index) : index[i].path = CurrentPath
           IN IF error' = GIT_SUCCESS
              THEN /\ index_pos' = index_pos + before + (IF match THEN 1 ELSE 0)
                   /\ Drains(before)
                   /\ (match /\ ~TypeChanged(index[index_pos + before + 1])) =>
                        \A j \in (Len(files) + 1)..Len(files') :
                          files'[j] # DrainedAs(index[index_pos + before + 1])
              ELSE /\ index_pos' <= index_pos + before + (IF match THEN 1 ELSE 0)
                   /\ Drains(Min(index_pos' - index_pos, before))
      /\ (Len(stack) = 1 /\ Top.todo = <<>> /\ error = GIT_SUCCESS
            /\ error' = GIT_SUCCESS) =>
           index_pos' = Len(index) /\ Drains(Len(index) - index_pos)

\* C24: in the tree/index and index/workdir comparisons the index cursor
\* never decreases and never passes the end of the index, nested directory
\* walks included; on a successful return it is at the end, and every
\* index entry was passed once: drained, and then reported by one record
\* (added for tree/index, deleted for index/workdir), or matched with the
\* one tree or workdir entry of equal path.
C24_CursorConsumesOnce == []C24_CursorBounds /\ [][C24_CursorStep]_vars

\* C24's case: an index/workdir comparison over three index entries, two
\* of them below a directory that is walked, one drained and reported
\* deleted, the others matched.
C24_Witness ==
    /\ Returned("workdir_to_index") /\ ~reverse
    /\ Len(index) = 3 /\ index_pos = 3
    /\ index[1].path = <<"a", "/", "a">>
    /\ Len(files) = 1
    /\ files[1].status = GIT_STATUS_DELETED
    /\ files[1].path = <<"a", "/", "b">>

\* C25: in any sequence of git_diff_foreach, git_diff_print_compact and
\* git_diff_print_patch calls on one list the backend is reached for a
\* record only in a call that was given a hunk or line callback: the
\* assertion before the backend call never fails.
C25_BackendNeedsCallbacks ==
    fe_phase \in {"xdl_diff", "xdl_stopped", "aborted"} =>
      fe_cbs.hunk_cb \/ fe_cbs.line_cb

\* The blobs git_diff_blobs compares, after the exchange under reverse.
GivenOld ==
    IF bl_args.options = "reverse" THEN bl_args.new_blob ELSE bl_args.old_blob

GivenNew ==
    IF bl_args.options = "reverse" THEN bl_args.old_blob ELSE bl_args.new_blob

\* C26: the record git_diff_blobs hands to hunk_cb and line_cb has mode
\* 0100644 on both sides and a status that tells which blobs are there
\* after the exchange under reverse: modified for both, added for the new
\* one only, deleted for the old one only.
C26_BlobsRecordStatus ==
    \A i \in 1..Len(bl_log) :
      LET delta == bl_log[i].delta IN
      /\ delta.old_attr = 33188 /\ delta.new_attr = 33188
      /\ (GivenOld # "NULL" /\ GivenNew # "NULL") =>
           delta.status = GIT_STATUS_MODIFIED
      /\ (GivenOld = "NULL" /\ GivenNew # "NULL") =>
           delta.status = GIT_STATUS_ADDED
      /\ (GivenOld # "NULL" /\ GivenNew = "NULL") =>
           delta.status = GIT_STATUS_DELETED

\* What holds of C26: both modes are 0100644, and the status is modified
\* when both blobs are given.
C26_BlobsRecordModes ==
    \A i \in 1..Len(bl_log) :
      LET delta == bl_log[i].delta IN
      /\ delta.old_attr = 33188 /\ delta.new_attr = 33188
      /\ (GivenOld # "NULL" /\ GivenNew # "NULL") =>
           delta.status = GIT_STATUS_MODIFIED

\* The single-sided constructor builds every record that is not modified.
SingleSided(list) == { i \in 1..Len(list) : list[i].status # GIT_STATUS_MODIFIED }

\* C27: in every run of every enumerator the single-sided record
\* constructor is called with status added or deleted only, the calls for
\* unmatched workdir entries included: no record it built has another
\* status.
C27_SingleSidedStatus ==
    \A i \in SingleSided(files) :
      files[i].status \in {GIT_STATUS_ADDED, GIT_STATUS_DELETED}

\* What holds of C27: the tree/tree and tree/index comparisons and the
\* drains of the index call the constructor with added or deleted.
C27_TreeSingleSidedStatus ==
    op \in {"tree_to_tree", "index_to_tree"} =>
      \A i \in SingleSided(files) :
        files[i].status \in {GIT_STATUS_ADDED, GIT_STATUS_DELETED}

====
